---- MODULE Spec2Model ----
(***************************************************************************)
(* Certificate deployment orchestration of ssh-ssl-auto-renew.             *)
(*                                                                         *)
(* The module models deploy_certificate (cert_automation/main.py) step by  *)
(* step against one remote server: the RemoteDeployer operations it calls  *)
(* (cert_automation/remote_deployer.py), the HealthChecker checks          *)
(* (cert_automation/health_checker.py), the remote certificate files the   *)
(* issued shell commands act on, and the outcome it returns.  The          *)
(* environment (network, remote shell, web server) chooses the result of   *)
(* every remote operation.                                                 *)
(***************************************************************************)
EXTENDS Integers, Sequences, FiniteSets, TLC

VARIABLES
    server_config,  \* the set of fields of the server entry that are present
    dry_run,        \* the dry_run argument
    pc,             \* position inside deploy_certificate
    remote,         \* remote certificate files: live pair and .bak pair
    pre_remote,     \* the remote files when deploy_certificate was called
    calls,          \* the operations issued so far, in order, with their result
    error,          \* the exception caught by the handler at main.py:115
    rollback,       \* progress of the rollback block (main.py:118-126)
    log,            \* the notable log records emitted so far
    session,        \* the RemoteDeployer SSH session
    outcome,        \* the (success, message) pair returned
    domain_info,    \* process_domain: the domain entry (domain, servers)
    servers_map,    \* process_domain: the server inventory, by name
    local_cert,     \* the local certificate file of the domain
    results,        \* the results dictionary of the run
    dpc,            \* position inside process_domain
    domain_to_issue,\* process_domain: domain_to_issue
    domain_result,  \* process_domain: domain_result
    server_index,   \* process_domain: position in servers_for_domain
    net,            \* the DNS, issuance and deployment calls process_domain made
    run,            \* main: its position, configuration, domain list and report
    applied         \* a function applied on its own: arguments and value

\* the state of process_domain
domain_vars == <<domain_info, servers_map, local_cert, results, dpc,
                 domain_to_issue, domain_result, server_index, net>>

\* the state of main, and of a function applied on its own
main_vars == <<run, applied>>

vars == <<server_config, dry_run, pc, remote, pre_remote, calls, error,
          rollback, log, session, outcome, domain_vars, main_vars>>

----------------------------------------------------------------------------
(* Bounds and program constants *)

\* how many of the required fields an enumerated server entry may lack
MaxMissing == 1

\* verify_cert_expiry(expected_min_expiry_days = 85)
expected_min_expiry_days == 85

----------------------------------------------------------------------------
(* Data *)

Absent == "absent"

\* the fields deploy_certificate requires (main.py:60-67)
RequiredFields == {"host", "user", "ssh_key_path", "cert_path", "nginx_reload_command"}

\* contents a remote file can have: the certificate in service before the
\* deployment, a file left behind earlier, the freshly issued local file, a
\* file cut short by a broken transfer
OldContent == "old"
StaleContent == "stale"
NewContent == "new"
PartialContent == "partial"

\* the remote paths built at main.py:77-82
RemoteFiles == [fullchain : {Absent, OldContent},
                privkey : {Absent, OldContent},
                fullchain_bak : {Absent, StaleContent},
                privkey_bak : {Absent, StaleContent}]

\* the command strings deploy_certificate hands to execute_command
BackupCmd == "sudo cp fullchain.pem fullchain.pem.bak"
CleanupCmd == "sudo rm fullchain.pem.bak privkey.pem.bak"
RollbackFullchainCmd == "sudo mv fullchain.pem.bak fullchain.pem"
RollbackKeyCmd == "sudo mv privkey.pem.bak privkey.pem"
NginxTestCmd == "sudo nginx -t"
ReloadCmd == "nginx_reload_command"

\* what the environment can do to one execute_command call: run the command,
\* run it with an output that lacks the success marker, make it exit non-zero
\* for a reason of its own, or fail the SSH transport on every try
ExecEnv == {"ok", "no_marker", "exit_nonzero", "net_error"}

\* what the environment can do to one upload_file call
UploadEnv == {"ok", "fail_clean", "fail_partial"}

\* what the HTTPS request of check_https_status can meet
HttpsEnv == [err : {"none"}, status : {200, 301, 404, 503}]
            \cup [err : {"SSLError", "RequestException"}, status : {0}]

\* what the TLS probe of verify_cert_expiry can meet: days_to_expiry of the
\* live certificate, or an error on the way
TlsEnv == [err : {"none"}, days : {expected_min_expiry_days - 1,
                                    expected_min_expiry_days,
                                    expected_min_expiry_days + 5}]
          \cup [err : {"Exception"}, days : {0}]

SuccessMarker == "test is successful"

----------------------------------------------------------------------------
(* The remote shell: what the issued command strings do to the files *)

\* cp SRC DST and mv SRC DST fail when SRC does not exist; rm A B removes
\* what exists and exits non-zero when one of them is missing
RunCommand(fs, command) ==
    CASE command = BackupCmd ->
            IF fs.fullchain # Absent
            THEN [fs |-> [fs EXCEPT !.fullchain_bak = fs.fullchain], exit |-> 0]
            ELSE [fs |-> fs, exit |-> 1]
      [] command = RollbackFullchainCmd ->
            IF fs.fullchain_bak # Absent
            THEN [fs |-> [fs EXCEPT !.fullchain = fs.fullchain_bak,
                                    !.fullchain_bak = Absent], exit |-> 0]
            ELSE [fs |-> fs, exit |-> 1]
      [] command = RollbackKeyCmd ->
            IF fs.privkey_bak # Absent
            THEN [fs |-> [fs EXCEPT !.privkey = fs.privkey_bak,
                                    !.privkey_bak = Absent], exit |-> 0]
            ELSE [fs |-> fs, exit |-> 1]
      [] command = CleanupCmd ->
            [fs |-> [fs EXCEPT !.fullchain_bak = Absent, !.privkey_bak = Absent],
             exit |-> IF fs.fullchain_bak # Absent /\ fs.privkey_bak # Absent
                      THEN 0 ELSE 1]
      [] OTHER -> [fs |-> fs, exit |-> 0]

----------------------------------------------------------------------------
(* RemoteDeployer *)

\* execute_command without the dry-run short-circuit of its first lines
execute_command_without_dry_run(fs, command, env, check_exit_code, dry) ==
    IF env = "net_error"
    THEN [exc |-> "SSHException", output |-> "", exit |-> 1, fs |-> fs,
          wire |-> TRUE]
    ELSE LET r == IF env = "exit_nonzero" THEN [fs |-> fs, exit |-> 1]
                  ELSE RunCommand(fs, command)
         IN  [exc |-> IF check_exit_code /\ r.exit # 0 THEN "Exception"
                      ELSE "none",
              output |-> IF command = NginxTestCmd /\ env = "ok"
                         THEN SuccessMarker ELSE "",
              exit |-> r.exit, fs |-> r.fs, wire |-> TRUE]

\* RemoteDeployer.execute_command: the result of one call, after the retries
\* of its decorator.  exc is the exception that leaves the call ("none" when
\* it returns), output the returned stdout, wire whether the call reached the
\* SSH transport.
execute_command(fs, command, env, check_exit_code, dry) ==
    IF dry
    THEN [exc |-> "none",
          output |-> IF command = NginxTestCmd THEN SuccessMarker
                     ELSE "Success (dry run)",
          exit |-> 0, fs |-> fs, wire |-> FALSE]
    ELSE IF env = "net_error"
    THEN [exc |-> "SSHException", output |-> "", exit |-> 1, fs |-> fs,
          wire |-> TRUE]
    ELSE LET r == IF env = "exit_nonzero" THEN [fs |-> fs, exit |-> 1]
                  ELSE RunCommand(fs, command)
         IN  [exc |-> IF check_exit_code /\ r.exit # 0 THEN "Exception"
                      ELSE "none",
              output |-> IF command = NginxTestCmd /\ env = "ok"
                         THEN SuccessMarker ELSE "",
              exit |-> r.exit, fs |-> r.fs, wire |-> TRUE]

\* upload_file with its failure logged and not re-raised
upload_file_swallowing(fs, target, env, dry) ==
    IF dry
    THEN [exc |-> "none", sent |-> TRUE, fs |-> fs, wire |-> FALSE]
    ELSE IF env = "ok"
    THEN [exc |-> "none", sent |-> TRUE,
          fs |-> [fs EXCEPT ![target] = NewContent], wire |-> TRUE]
    ELSE [exc |-> "none", sent |-> FALSE,
          fs |-> IF env = "fail_partial"
                 THEN [fs EXCEPT ![target] = PartialContent] ELSE fs,
          wire |-> TRUE]

\* RemoteDeployer.upload_file of the local file to the remote path `target`,
\* after the retries of its decorator: sent tells whether the file was
\* transferred (or the transfer simulated), exc the exception leaving the call
upload_file(fs, target, env, dry) ==
    IF dry
    THEN [exc |-> "none", sent |-> TRUE, fs |-> fs, wire |-> FALSE]
    ELSE IF env = "ok"
    THEN [exc |-> "none", sent |-> TRUE,
          fs |-> [fs EXCEPT ![target] = NewContent], wire |-> TRUE]
    ELSE [exc |-> "IOError", sent |-> FALSE,
          fs |-> IF env = "fail_partial"
                 THEN [fs EXCEPT ![target] = PartialContent] ELSE fs,
          wire |-> TRUE]

\* validate_nginx_config with the failure of the self-test raised to the
\* caller instead of returned
validate_nginx_config_raising(r) ==
    [exc |-> IF r.exc = "none" /\ r.output = SuccessMarker THEN "none"
             ELSE "Exception",
     value |-> (r.exc = "none" /\ r.output = SuccessMarker)]

\* RemoteDeployer.validate_nginx_config, given the result r of its
\* execute_command("sudo nginx -t"): it returns a boolean and raises nothing
validate_nginx_config(r) ==
    [exc |-> "none", value |-> (r.exc = "none" /\ r.output = SuccessMarker)]

\* RemoteDeployer.reload_nginx, given the result r of its execute_command:
\* it returns a boolean and raises nothing
reload_nginx(r) ==
    [exc |-> "none", value |-> (r.exc = "none")]

\* the session after an operation that had result r
SessionAfter(s, r) ==
    IF r.wire /\ r.exc # "SSHException" /\ r.exc # "IOError" THEN "open" ELSE s

\* close leaving the connection as it is
close_leaving_open(s, dry) == s

\* RemoteDeployer.close
close(s, dry) == IF dry THEN s ELSE "closed"

----------------------------------------------------------------------------
(* HealthChecker *)

\* HealthChecker.check_https_status: response.ok, False on a request error
check_https_status(resp) ==
    [exc |-> "none", value |-> (resp.err = "none" /\ resp.status < 400)]

\* HealthChecker.verify_cert_expiry
verify_cert_expiry(tls) ==
    [exc |-> "none",
     value |-> (tls.err = "none" /\ tls.days >= expected_min_expiry_days)]

----------------------------------------------------------------------------
(* deploy_certificate *)

NoOutcome == [success |-> FALSE, message |-> [kind |-> "pending", e |-> ""]]

\* the messages deploy_certificate returns (main.py:68, 113, 116)
IncompleteMsg == [kind |-> "incomplete", e |-> ""]
SuccessMsg == [kind |-> "successful", e |-> ""]
error_msg(e) == [kind |-> "FAILED", e |-> e]

\* the log records the claims read (main.py:88, 111, 124, 126)
BackupFailedLog == "Backup failed"
CleanupFailedLog == "Failed to clean up backup files"
RollbackOkLog == "Rollback successful"
RollbackFailedLog == "CRITICAL: Rollback FAILED. Nginx may be in a broken state."

\* a record of the call log: the step of deploy_certificate, the operation,
\* what the environment did to it, whether it did what it is for, and whether
\* it reached the SSH transport
Call(step, op, env, ok, wire) ==
    [step |-> step, op |-> op, env |-> env, ok |-> ok, wire |-> wire]

\* NextStep with the health checks skipped in a live run as in a dry run
NextStep_health_skipped(step, dry) ==
    CASE step = "backup" -> "upload_fullchain"
      [] step = "upload_fullchain" -> "upload_key"
      [] step = "upload_key" -> "validate"
      [] step = "validate" -> "reload"
      [] step = "reload" -> "cleanup"
      [] step = "health_https" -> "health_expiry"
      [] step = "health_expiry" -> "cleanup"
      [] OTHER -> "close"

\* the statement of the try body reached when `step` completed without an
\* exception reaching deploy_certificate (main.py:84-113)
NextStep(step, dry) ==
    CASE step = "backup" -> "upload_fullchain"
      [] step = "upload_fullchain" -> "upload_key"
      [] step = "upload_key" -> "validate"
      [] step = "validate" -> "reload"
      [] step = "reload" -> IF dry THEN "cleanup" ELSE "health_https"
      [] step = "health_https" -> "health_expiry"
      [] step = "health_expiry" -> "cleanup"
      [] OTHER -> "close"

\* where the handler of the try body goes first (main.py:115-127)
ExceptHandler(dry) == IF dry THEN "close" ELSE "rollback_fullchain"

\* CheckConfig with a check that reads the host field alone
CheckConfig_host_only ==
    /\ pc = "start"
    /\ IF "host" \in server_config
       THEN /\ pc' = "backup"
            /\ UNCHANGED outcome
       ELSE /\ pc' = "done"
            /\ outcome' = [success |-> FALSE, message |-> IncompleteMsg]
    /\ UNCHANGED <<server_config, dry_run, remote, pre_remote, calls, error,
                   rollback, log, session, domain_vars, main_vars>>

\* main.py:60-73: the config check, then the RemoteDeployer is created
CheckConfig ==
    /\ pc = "start"
    /\ IF server_config = RequiredFields
       THEN /\ pc' = "backup"
            /\ UNCHANGED outcome
       ELSE /\ pc' = "done"
            /\ outcome' = [success |-> FALSE, message |-> IncompleteMsg]
    /\ UNCHANGED <<server_config, dry_run, remote, pre_remote, calls, error,
                   rollback, log, session, domain_vars, main_vars>>

\* a step of the try body that ran operation `op` with result r, where
\* `raised` tells whether an exception reached deploy_certificate, and `ok`
\* whether the operation did what it is for
TryStep(step, op, env, r, fs, ok, raised, logged) ==
    /\ calls' = Append(calls, Call(step, op, IF dry_run THEN "simulated" ELSE env,
                                   ok, r.wire))
    /\ remote' = fs
    /\ session' = SessionAfter(session, r)
    /\ log' = log \cup logged
    /\ IF raised
       THEN /\ error' = op
            /\ pc' = ExceptHandler(dry_run)
            /\ rollback' = IF ExceptHandler(dry_run) = "close" THEN rollback
                           ELSE "attempting"
            /\ outcome' = IF ExceptHandler(dry_run) = "close"
                          THEN [success |-> FALSE, message |-> error_msg(op)]
                          ELSE outcome
       ELSE /\ pc' = NextStep(step, dry_run)
            /\ outcome' = IF NextStep(step, dry_run) = "close"
                          THEN [success |-> TRUE, message |-> SuccessMsg]
                          ELSE outcome
            /\ UNCHANGED <<error, rollback>>
    /\ UNCHANGED <<server_config, dry_run, pre_remote, domain_vars, main_vars>>

\* main.py:84-88: step 1, the backup; its own try/except keeps every failure
Backup ==
    /\ pc = "backup"
    /\ \E env \in ExecEnv \ {"no_marker"} :
         LET r == execute_command(remote, BackupCmd, env, FALSE, dry_run)
         IN  TryStep("backup", "cp_fullchain_bak", env, r, r.fs,
                     r.exc = "none" /\ r.exit = 0, FALSE,
                     IF r.exc # "none" THEN {BackupFailedLog} ELSE {})

\* main.py:91: step 2, upload of the fullchain
UploadFullchain ==
    /\ pc = "upload_fullchain"
    /\ \E env \in UploadEnv :
         LET r == upload_file(remote, "fullchain", env, dry_run)
         IN  TryStep("upload_fullchain", "upload_fullchain", env, r, r.fs,
                     r.sent, r.exc # "none", {})

\* main.py:92: step 2, upload of the key
UploadKey ==
    /\ pc = "upload_key"
    /\ \E env \in UploadEnv :
         LET r == upload_file(remote, "privkey", env, dry_run)
         IN  TryStep("upload_key", "upload_privkey", env, r, r.fs,
                     r.sent, r.exc # "none", {})

\* main.py:95: step 3; the value validate_nginx_config returns is not read
Validate ==
    /\ pc = "validate"
    /\ \E env \in ExecEnv :
         LET r == execute_command(remote, NginxTestCmd, env, TRUE, dry_run)
             v == validate_nginx_config(r)
         IN  TryStep("validate", "nginx_t", env, r, r.fs, v.value,
                     v.exc # "none", {})

\* main.py:98: step 4; the value reload_nginx returns is not read
Reload ==
    /\ pc = "reload"
    /\ \E env \in ExecEnv \ {"no_marker"} :
         LET r == execute_command(remote, ReloadCmd, env, TRUE, dry_run)
             v == reload_nginx(r)
         IN  TryStep("reload", "reload", env, r, r.fs, v.value,
                     v.exc # "none", {})

\* main.py:103: step 5, first check; the value returned is not read
HealthHttps ==
    /\ pc = "health_https"
    /\ \E resp \in HttpsEnv :
         LET v == check_https_status(resp)
         IN  TryStep("health_https", "check_https_status", resp.err,
                     [wire |-> FALSE, exc |-> "none"], remote, v.value,
                     v.exc # "none", {})

\* main.py:104: step 5, second check; the value returned is not read
HealthExpiry ==
    /\ pc = "health_expiry"
    /\ \E tls \in TlsEnv :
         LET v == verify_cert_expiry(tls)
         IN  TryStep("health_expiry", "verify_cert_expiry", tls.err,
                     [wire |-> FALSE, exc |-> "none"], remote, v.value,
                     v.exc # "none", {})

\* Cleanup without its own try/except: its exception reaches the handler
Cleanup_unguarded ==
    /\ pc = "cleanup"
    /\ \E env \in ExecEnv \ {"no_marker"} :
         LET r == execute_command(remote, CleanupCmd, env, TRUE, dry_run)
         IN  TryStep("cleanup", "rm_bak", env, r, r.fs, r.exc = "none",
                     r.exc # "none", {})

\* main.py:106-113: step 6, the cleanup in its own try/except, then the
\* successful return
Cleanup ==
    /\ pc = "cleanup"
    /\ \E env \in ExecEnv \ {"no_marker"} :
         LET r == execute_command(remote, CleanupCmd, env, TRUE, dry_run)
         IN  TryStep("cleanup", "rm_bak", env, r, r.fs, r.exc = "none", FALSE,
                     IF r.exc # "none" THEN {CleanupFailedLog} ELSE {})

\* RollbackStep without the except clause of the rollback block: the
\* exception of a rollback command leaves deploy_certificate through finally
RollbackStep_uncaught(op, env, r, ok, raised, next) ==
    /\ calls' = Append(calls, Call("rollback", op, env, ok, r.wire))
    /\ remote' = r.fs
    /\ session' = SessionAfter(session, r)
    /\ IF raised
       THEN /\ pc' = "close"
            /\ UNCHANGED <<rollback, log, outcome>>
       ELSE IF next = "close"
       THEN /\ rollback' = "successful"
            /\ log' = log \cup {RollbackOkLog}
            /\ pc' = "close"
            /\ outcome' = [success |-> FALSE, message |-> error_msg(error)]
       ELSE /\ pc' = next
            /\ UNCHANGED <<rollback, log, outcome>>
    /\ UNCHANGED <<server_config, dry_run, pre_remote, error, domain_vars, main_vars>>

\* a command of the rollback block (main.py:120-126): an exception ends the
\* block at the critical log record; the function then returns at line 127
RollbackStep(op, env, r, ok, raised, next) ==
    /\ calls' = Append(calls, Call("rollback", op, env, ok, r.wire))
    /\ remote' = r.fs
    /\ session' = SessionAfter(session, r)
    /\ IF raised
       THEN /\ rollback' = "FAILED"
            /\ log' = log \cup {RollbackFailedLog}
            /\ pc' = "close"
            /\ outcome' = [success |-> FALSE, message |-> error_msg(error)]
       ELSE IF next = "close"
       THEN /\ rollback' = "successful"
            /\ log' = log \cup {RollbackOkLog}
            /\ pc' = "close"
            /\ outcome' = [success |-> FALSE, message |-> error_msg(error)]
       ELSE /\ pc' = next
            /\ UNCHANGED <<rollback, log, outcome>>
    /\ UNCHANGED <<server_config, dry_run, pre_remote, error, domain_vars, main_vars>>

\* main.py:121
RollbackFullchain ==
    /\ pc = "rollback_fullchain"
    /\ \E env \in ExecEnv \ {"no_marker"} :
         LET r == execute_command(remote, RollbackFullchainCmd, env, TRUE, dry_run)
         IN  RollbackStep("mv_fullchain_bak", env, r,
                          r.exc = "none", r.exc # "none", "rollback_key")

\* main.py:122
RollbackKey ==
    /\ pc = "rollback_key"
    /\ \E env \in ExecEnv \ {"no_marker"} :
         LET r == execute_command(remote, RollbackKeyCmd, env, TRUE, dry_run)
         IN  RollbackStep("mv_privkey_bak", env, r,
                          r.exc = "none", r.exc # "none", "rollback_reload")

\* main.py:123: the value reload_nginx returns is not read
RollbackReload ==
    /\ pc = "rollback_reload"
    /\ \E env \in ExecEnv \ {"no_marker"} :
         LET r == execute_command(remote, ReloadCmd, env, TRUE, dry_run)
             v == reload_nginx(r)
         IN  RollbackStep("reload", env, r, v.value,
                          v.exc # "none", "close")

\* main.py:128-129: finally, deployer.close(); the caller gets the outcome
Close ==
    /\ pc = "close"
    /\ session' = close(session, dry_run)
    /\ pc' = "done"
    /\ UNCHANGED <<server_config, dry_run, remote, pre_remote, calls, error,
                   rollback, log, outcome, domain_vars, main_vars>>

----------------------------------------------------------------------------
(* Specification *)

\* the server entries enumerated: complete, or lacking up to MaxMissing fields
ServerConfigs ==
    {RequiredFields \ m : m \in {x \in SUBSET RequiredFields : Cardinality(x) <= MaxMissing}}

\* the values the state of process_domain has before it is called
NoDomainInfo == [domain |-> <<>>, servers |-> <<>>]
NoLocalCert == [readable |-> FALSE, expiry |-> 0]
EmptyResults == [domains_processed |-> 0, successful_renewals |-> <<>>,
                 skipped_renewals |-> <<>>, failed_renewals |-> <<>>]
NoDomainResult == [domain |-> <<>>, issue_error |-> "None",
                   deployment_results |-> <<>>]
NoCalls == [dns |-> <<>>, issued |-> <<>>, touched |-> {}]

\* main is not running, and no function is applied on its own
NoRun == [mpc |-> "none"]
NoApplication == [fn |-> "none"]

\* deploy_certificate called on its own, outside process_domain
Standalone ==
    /\ domain_info = NoDomainInfo
    /\ servers_map = <<>>
    /\ local_cert = NoLocalCert
    /\ results = EmptyResults
    /\ dpc = "standalone"
    /\ domain_to_issue = <<>>
    /\ domain_result = NoDomainResult
    /\ server_index = 0
    /\ net = NoCalls
    /\ run = NoRun
    /\ applied = NoApplication

Init ==
    /\ Standalone
    /\ server_config \in ServerConfigs
    /\ dry_run \in BOOLEAN
    /\ pc = "start"
    /\ remote \in RemoteFiles
    /\ pre_remote = remote
    /\ calls = <<>>
    /\ error = ""
    /\ rollback = "none"
    /\ log = {}
    /\ session = "none"
    /\ outcome = NoOutcome

Next ==
    \/ CheckConfig
    \/ Backup
    \/ UploadFullchain
    \/ UploadKey
    \/ Validate
    \/ Reload
    \/ HealthHttps
    \/ HealthExpiry
    \/ Cleanup
    \/ RollbackFullchain
    \/ RollbackKey
    \/ RollbackReload
    \/ Close

Spec == Init /\ [][Next]_vars

----------------------------------------------------------------------------
(* process_domain: its collaborators *)

\* how many server names an enumerated domain entry may list
MaxServers == 2

\* RENEWAL_THRESHOLD_DAYS, default "30"
renewal_threshold_days == 30

\* datetime.now(), in days
Today == 1000

\* what socket.gethostbyname can meet
DnsEnv == {"private_ip", "public_ip", "gaierror", "error"}

\* get_domain_ip_type, given what the resolution met
get_domain_ip_type(resolution) ==
    CASE resolution = "private_ip" -> "private"
      [] resolution = "public_ip" -> "public"
      [] OTHER -> "unknown"

\* get_wildcard_domain stripping the first label of every domain of two or
\* more labels
get_wildcard_domain_parent_always(domain) ==
    LET parts == domain
        wildcard_base == IF Len(parts) >= 2 THEN Tail(parts) ELSE domain
    IN  <<"*">> \o wildcard_base

\* get_wildcard_domain: a domain is the sequence of its labels
get_wildcard_domain(domain) ==
    LET parts == domain
        wildcard_base == IF Len(parts) > 2 THEN Tail(parts) ELSE domain
    IN  <<"*">> \o wildcard_base

\* is_certificate_due_for_renewal with a certificate that cannot be read
\* taken as due
is_certificate_due_when_unreadable(cert, threshold_days, now) ==
    IF ~cert.readable THEN TRUE
    ELSE now >= cert.expiry - threshold_days

\* is_certificate_due_for_renewal with the boundary instant left out
is_certificate_due_strictly_after(cert, threshold_days, now) ==
    IF ~cert.readable
    THEN FALSE
    ELSE LET renewal_date == cert.expiry - threshold_days
         IN  now > renewal_date

\* is_certificate_due_for_renewal: an unreadable certificate is not due
is_certificate_due_for_renewal(cert, threshold_days, now) ==
    IF ~cert.readable
    THEN FALSE
    ELSE LET renewal_date == cert.expiry - threshold_days
         IN  now >= renewal_date

\* main.py:152-156: the name the certificate is issued for, given the
\* domain of the entry and what its resolution met
issuance_target(target_domain, resolution) ==
    LET ip_type == get_domain_ip_type(resolution)
    IN  IF ip_type = "private"
        THEN get_wildcard_domain(target_domain)
        ELSE target_domain

\* what acme.sh can do to one issue_certificate call
IssueEnv == {"ok", "register_fails", "issue_fails"}

\* issue_certificate: registration, then the issue command; exc is the
\* exception leaving the call and text what str(e) reports
issue_certificate(env) ==
    CASE env = "register_fails" ->
            [exc |-> "Exception", text |-> "ACME account registration failed"]
      [] env = "issue_fails" ->
            [exc |-> "Exception", text |-> "acme.sh certificate issuance failed"]
      [] OTHER -> [exc |-> "none", text |-> "None"]

\* the domain names of the enumerated entries; <<>> is an entry without a
\* domain field
TargetDomains == {<<"app", "example", "com">>, <<"example", "com">>}

\* the enumerated inventory: two usable servers, one with an incomplete entry
Inventory ==
    [n \in {"A", "B", "C"} |->
        IF n = "C" THEN RequiredFields \ {"cert_path"} ELSE RequiredFields]

\* the names a domain entry may list; "ghost" is not in the inventory
ServerNames == {"A", "B", "C", "ghost"}

ServerLists == UNION {[1..n -> ServerNames] : n \in 0..MaxServers}

\* the local certificate files enumerated: unreadable, or expiring just
\* inside, at, and just outside the renewal threshold
LocalCerts ==
    {NoLocalCert}
    \cup [readable : {TRUE},
          expiry : {Today + renewal_threshold_days - 1,
                    Today + renewal_threshold_days,
                    Today + renewal_threshold_days + 1}]

\* the remote files of a server of the inventory when a deployment to it
\* begins, inside process_domain: it serves a certificate and holds a
\* left-over key backup, so that every step of deploy_certificate can occur
\* (the other starting states are those of Init)
ServedRemotes ==
    {r \in RemoteFiles : /\ r.fullchain = OldContent /\ r.privkey = OldContent
                         /\ r.fullchain_bak = Absent
                         /\ r.privkey_bak = StaleContent}

\* servers_map.get(server_name)
InInventory(map, name) == name \in DOMAIN map

\* the messages process_domain records itself (main.py:142, 194, 208)
MissingDomainError == "Domain entry missing 'domain' field."
NoTargetsMsg == [kind |-> "No deployment targets configured.", e |-> ""]
NotFoundMsg == [kind |-> "not found in servers.yaml", e |-> ""]

----------------------------------------------------------------------------
(* process_domain *)

\* no server is connected to
NoRemote == [fullchain |-> Absent, privkey |-> Absent,
             fullchain_bak |-> Absent, privkey_bak |-> Absent]

\* deploy_certificate is not running
DeployIdle ==
    /\ server_config = {}
    /\ pc = "idle"
    /\ remote = NoRemote
    /\ pre_remote = NoRemote
    /\ calls = <<>>
    /\ error = ""
    /\ rollback = "none"
    /\ log = {}
    /\ session = "none"
    /\ outcome = NoOutcome

deploy_vars == <<server_config, pc, remote, pre_remote, calls, error,
                 rollback, log, session, outcome>>

\* ProcessDomainEntry without the test of the domain field
ProcessDomainEntry_unchecked ==
    /\ dpc = "entry"
    /\ results' = [results EXCEPT !.domains_processed = @ + 1]
    /\ dpc' = "resolve"
    /\ UNCHANGED <<domain_info, servers_map, local_cert, domain_to_issue,
                   domain_result, server_index, net, dry_run, deploy_vars, main_vars>>

\* ProcessDomainEntry not counting an entry without a domain field
ProcessDomainEntry_uncounted ==
    /\ dpc = "entry"
    /\ IF domain_info.domain = <<>>
       THEN /\ results' = [results EXCEPT
                  !.failed_renewals =
                      Append(@, [domain |-> <<"N/A">>, error |-> MissingDomainError])]
            /\ dpc' = "returned"
       ELSE /\ results' = [results EXCEPT !.domains_processed = @ + 1]
            /\ dpc' = "resolve"
    /\ UNCHANGED <<domain_info, servers_map, local_cert, domain_to_issue,
                   domain_result, server_index, net, dry_run, deploy_vars, main_vars>>

\* main.py:136-150: the entry of process_domain
ProcessDomainEntry ==
    /\ dpc = "entry"
    /\ IF domain_info.domain = <<>>
       THEN /\ results' = [results EXCEPT
                  !.domains_processed = @ + 1,
                  !.failed_renewals =
                      Append(@, [domain |-> <<"N/A">>, error |-> MissingDomainError])]
            /\ dpc' = "returned"
       ELSE /\ results' = [results EXCEPT !.domains_processed = @ + 1]
            /\ dpc' = "resolve"
    /\ UNCHANGED <<domain_info, servers_map, local_cert, domain_to_issue,
                   domain_result, server_index, net, dry_run, deploy_vars, main_vars>>

\* main.py:152-156: the IP type of the domain, and the name to issue for
ResolveDomain ==
    /\ dpc = "resolve"
    /\ \E resolution \in DnsEnv :
         domain_to_issue' = issuance_target(domain_info.domain, resolution)
    /\ net' = [net EXCEPT !.dns = Append(@, domain_info.domain)]
    /\ dpc' = "due_check"
    /\ UNCHANGED <<domain_info, servers_map, local_cert, results,
                   domain_result, server_index, dry_run, deploy_vars, main_vars>>

\* RenewalDecision with the dry_run disjunct of the test left out
RenewalDecision_due_only ==
    /\ dpc = "due_check"
    /\ IF is_certificate_due_for_renewal(local_cert, renewal_threshold_days, Today)
       THEN /\ domain_result' = [domain |-> domain_info.domain,
                                 issue_error |-> "None",
                                 deployment_results |-> <<>>]
            /\ dpc' = "issue"
            /\ UNCHANGED results
       ELSE /\ results' = [results EXCEPT
                  !.skipped_renewals = Append(@, domain_info.domain)]
            /\ dpc' = "returned"
            /\ UNCHANGED domain_result
    /\ UNCHANGED <<domain_info, servers_map, local_cert, domain_to_issue,
                   server_index, net, dry_run, deploy_vars, main_vars>>

\* main.py:158-169 and 226-228: the renewal decision
RenewalDecision ==
    /\ dpc = "due_check"
    /\ IF \/ is_certificate_due_for_renewal(local_cert, renewal_threshold_days, Today)
          \/ dry_run
       THEN /\ domain_result' = [domain |-> domain_info.domain,
                                 issue_error |-> "None",
                                 deployment_results |-> <<>>]
            /\ dpc' = "issue"
            /\ UNCHANGED results
       ELSE /\ results' = [results EXCEPT
                  !.skipped_renewals = Append(@, domain_info.domain)]
            /\ dpc' = "returned"
            /\ UNCHANGED domain_result
    /\ UNCHANGED <<domain_info, servers_map, local_cert, domain_to_issue,
                   server_index, net, dry_run, deploy_vars, main_vars>>

\* Issue with the deployment not conditioned on issuance_successful
Issue_then_deploy ==
    /\ dpc = "issue"
    /\ \E env \in IssueEnv :
         LET r == issue_certificate(env)
         IN  IF r.exc = "none"
             THEN /\ dpc' = "servers"
                  /\ UNCHANGED <<domain_result, results>>
             ELSE /\ domain_result' = [domain_result EXCEPT !.issue_error = r.text]
                  /\ dpc' = "servers"
                  /\ UNCHANGED results
    /\ net' = [net EXCEPT !.issued = Append(@, domain_to_issue)]
    /\ UNCHANGED <<domain_info, servers_map, local_cert, domain_to_issue,
                   server_index, dry_run, deploy_vars, main_vars>>

\* main.py:171-186 and 223-224: the issuance; a failure is recorded and ends
\* the processing of the domain
Issue ==
    /\ dpc = "issue"
    /\ \E env \in IssueEnv :
         LET r == issue_certificate(env)
         IN  IF r.exc = "none"
             THEN /\ dpc' = "servers"
                  /\ UNCHANGED <<domain_result, results>>
             ELSE /\ domain_result' = [domain_result EXCEPT !.issue_error = r.text]
                  /\ results' = [results EXCEPT
                        !.failed_renewals = Append(@, domain_result')]
                  /\ dpc' = "returned"
    /\ net' = [net EXCEPT !.issued = Append(@, domain_to_issue)]
    /\ UNCHANGED <<domain_info, servers_map, local_cert, domain_to_issue,
                   server_index, dry_run, deploy_vars, main_vars>>

\* main.py:190-196: the servers of the domain; none gives one synthetic
\* successful outcome
ServersOfDomain ==
    /\ dpc = "servers"
    /\ IF domain_info.servers = <<>>
       THEN /\ domain_result' = [domain_result EXCEPT !.deployment_results =
                  Append(@, [server |-> "N/A", success |-> TRUE,
                             message |-> NoTargetsMsg])]
            /\ dpc' = "classify"
            /\ UNCHANGED server_index
       ELSE /\ dpc' = "next_server"
            /\ server_index' = 1
            /\ UNCHANGED domain_result
    /\ UNCHANGED <<domain_info, servers_map, local_cert, results,
                   domain_to_issue, net, dry_run, deploy_vars, main_vars>>

\* NextServer with the loop ending one server early
NextServer_skips_last ==
    /\ dpc = "next_server"
    /\ IF server_index >= Len(domain_info.servers)
       THEN /\ dpc' = "classify"
            /\ UNCHANGED <<domain_result, server_index, deploy_vars>>
       ELSE LET server_name == domain_info.servers[server_index]
            IN  IF InInventory(servers_map, server_name)
                THEN /\ dpc' = "deploying"
                     /\ server_config' = servers_map[server_name]
                     /\ pc' = "start"
                     /\ remote' \in ServedRemotes
                     /\ pre_remote' = remote'
                     /\ UNCHANGED <<domain_result, server_index, calls, error,
                                    rollback, log, session, outcome>>
                ELSE /\ domain_result' = [domain_result EXCEPT
                           !.deployment_results =
                               Append(@, [server |-> server_name,
                                          success |-> FALSE,
                                          message |-> NotFoundMsg])]
                     /\ server_index' = server_index + 1
                     /\ dpc' = "next_server"
                     /\ UNCHANGED deploy_vars
    /\ UNCHANGED <<domain_info, servers_map, local_cert, results,
                   domain_to_issue, net, dry_run, main_vars>>

\* NextServer leaving the loop at a name that is not in the inventory
NextServer_stops_at_unknown ==
    /\ dpc = "next_server"
    /\ IF server_index > Len(domain_info.servers)
       THEN /\ dpc' = "classify"
            /\ UNCHANGED <<domain_result, server_index, deploy_vars>>
       ELSE LET server_name == domain_info.servers[server_index]
            IN  IF InInventory(servers_map, server_name)
                THEN /\ dpc' = "deploying"
                     /\ server_config' = servers_map[server_name]
                     /\ pc' = "start"
                     /\ remote' \in ServedRemotes
                     /\ pre_remote' = remote'
                     /\ UNCHANGED <<domain_result, server_index, calls, error,
                                    rollback, log, session, outcome>>
                ELSE /\ domain_result' = [domain_result EXCEPT
                           !.deployment_results =
                               Append(@, [server |-> server_name,
                                          success |-> FALSE,
                                          message |-> NotFoundMsg])]
                     /\ dpc' = "classify"
                     /\ UNCHANGED <<server_index, deploy_vars>>
    /\ UNCHANGED <<domain_info, servers_map, local_cert, results,
                   domain_to_issue, net, dry_run, main_vars>>

\* main.py:196-201 and 207-214: the next server name of the list; a name of
\* the inventory starts deploy_certificate, another one is recorded as failed
NextServer ==
    /\ dpc = "next_server"
    /\ IF server_index > Len(domain_info.servers)
       THEN /\ dpc' = "classify"
            /\ UNCHANGED <<domain_result, server_index, deploy_vars>>
       ELSE LET server_name == domain_info.servers[server_index]
            IN  IF InInventory(servers_map, server_name)
                THEN /\ dpc' = "deploying"
                     /\ server_config' = servers_map[server_name]
                     /\ pc' = "start"
                     /\ remote' \in ServedRemotes
                     /\ pre_remote' = remote'
                     /\ UNCHANGED <<domain_result, server_index, calls, error,
                                    rollback, log, session, outcome>>
                ELSE /\ domain_result' = [domain_result EXCEPT
                           !.deployment_results =
                               Append(@, [server |-> server_name,
                                          success |-> FALSE,
                                          message |-> NotFoundMsg])]
                     /\ server_index' = server_index + 1
                     /\ dpc' = "next_server"
                     /\ UNCHANGED deploy_vars
    /\ UNCHANGED <<domain_info, servers_map, local_cert, results,
                   domain_to_issue, net, dry_run, main_vars>>

\* RecordDeployment leaving the loop after a failed deployment
RecordDeployment_stops_on_failure ==
    /\ dpc = "deploying"
    /\ pc = "done"
    /\ domain_result' = [domain_result EXCEPT !.deployment_results =
           Append(@, [server |-> domain_info.servers[server_index],
                      success |-> outcome.success,
                      message |-> outcome.message])]
    /\ net' = [net EXCEPT !.touched =
           IF calls # <<>> THEN @ \cup {server_index} ELSE @]
    /\ server_index' = server_index + 1
    /\ dpc' = IF outcome.success THEN "next_server" ELSE "classify"
    /\ server_config' = {}
    /\ pc' = "idle"
    /\ remote' = NoRemote
    /\ pre_remote' = NoRemote
    /\ calls' = <<>>
    /\ error' = ""
    /\ rollback' = "none"
    /\ log' = {}
    /\ session' = "none"
    /\ outcome' = NoOutcome
    /\ UNCHANGED <<domain_info, servers_map, local_cert, results,
                   domain_to_issue, dry_run, main_vars>>

\* main.py:199-206: deploy_certificate has returned; its outcome is appended
\* and its locals are gone
RecordDeployment ==
    /\ dpc = "deploying"
    /\ pc = "done"
    /\ domain_result' = [domain_result EXCEPT !.deployment_results =
           Append(@, [server |-> domain_info.servers[server_index],
                      success |-> outcome.success,
                      message |-> outcome.message])]
    /\ net' = [net EXCEPT !.touched =
           IF calls # <<>> THEN @ \cup {server_index} ELSE @]
    /\ server_index' = server_index + 1
    /\ dpc' = "next_server"
    /\ server_config' = {}
    /\ pc' = "idle"
    /\ remote' = NoRemote
    /\ pre_remote' = NoRemote
    /\ calls' = <<>>
    /\ error' = ""
    /\ rollback' = "none"
    /\ log' = {}
    /\ session' = "none"
    /\ outcome' = NoOutcome
    /\ UNCHANGED <<domain_info, servers_map, local_cert, results,
                   domain_to_issue, dry_run, main_vars>>

\* any() in the place of all()
any_deployment_successful(deployment_results) ==
    \E i \in DOMAIN deployment_results : deployment_results[i].success

\* all(res["success"] for res in deployment_results)
all_deployments_successful(deployment_results) ==
    \A i \in DOMAIN deployment_results : deployment_results[i].success

\* main.py:216-222: the classification of the domain
Classify ==
    /\ dpc = "classify"
    /\ IF /\ domain_result.issue_error = "None"
          /\ all_deployments_successful(domain_result.deployment_results)
       THEN results' = [results EXCEPT
                !.successful_renewals = Append(@, domain_info.domain)]
       ELSE results' = [results EXCEPT
                !.failed_renewals = Append(@, domain_result)]
    /\ dpc' = "returned"
    /\ UNCHANGED <<domain_info, servers_map, local_cert, domain_to_issue,
                   domain_result, server_index, net, dry_run, deploy_vars, main_vars>>

\* one call of process_domain on an enumerated entry, the first of a run
InitDomain ==
    /\ dry_run \in BOOLEAN
    /\ DeployIdle
    /\ domain_info \in [domain : TargetDomains \cup {<<>>}, servers : ServerLists]
    /\ servers_map = Inventory
    /\ local_cert \in LocalCerts
    /\ results = EmptyResults
    /\ dpc = "entry"
    /\ domain_to_issue = <<>>
    /\ domain_result = NoDomainResult
    /\ server_index = 0
    /\ net = NoCalls
    /\ run = NoRun
    /\ applied = NoApplication

NextDomain ==
    \/ ProcessDomainEntry
    \/ ResolveDomain
    \/ RenewalDecision
    \/ Issue
    \/ ServersOfDomain
    \/ NextServer
    \/ RecordDeployment
    \/ Classify
    \/ Next

SpecDomain == InitDomain /\ [][NextDomain]_vars

----------------------------------------------------------------------------
(* report_generator.py: the Markdown report.  The text is the sequence of
   the appended lines; a line keeps its fixed wording as kind and the values
   formatted into it as a, b and c. *)

Line(kind, a, b, c) == [kind |-> kind, a |-> a, b |-> b, c |-> c]

\* Python's None, as an f-string shows it
None == "None"

\* a dictionary is a record; the keys it holds with the value None are not
\* fields of the record, they are listed in its field null_fields
NullFields(d) == IF "null_fields" \in DOMAIN d THEN d.null_fields ELSE {}

\* d[key] is None
IsNone(d, key) == key \in NullFields(d)

\* dict.get with a default, for a key that does not hold None
Get(d, key, default) == IF key \in DOMAIN d THEN d[key] ELSE default

\* what "{d.get(key, default)}" shows: the default stands in for an absent
\* key only, a key that holds None shows None
Shown(d, key, default) == IF IsNone(d, key) THEN None ELSE Get(d, key, default)

\* "if d.get(key):" on a list: absent, None and the empty list are false
NonEmpty(d, key) == ~IsNone(d, key) /\ key \in DOMAIN d /\ d[key] # <<>>

\* "if d.get(key)" on a boolean: absent and None are false
IsTrue(d, key) == ~IsNone(d, key) /\ key \in DOMAIN d /\ d[key] = TRUE

\* d.get(key, default) == n on a number: None equals no number
NumberIs(d, key, default, n) == ~IsNone(d, key) /\ Get(d, key, default) = n

\* the concatenation of a sequence of sequences
RECURSIVE Concat(_)
Concat(seqs) == IF seqs = <<>> THEN <<>> ELSE Head(seqs) \o Concat(Tail(seqs))

\* the exception that leaves generate_markdown_report, "none" when it
\* returns: strftime is called on what get('end_time', now) gives
\* (report_generator.py:51) and len on what get(collection, []) gives
\* (58-60), and get gives None for a key that holds None
report_raises(res) ==
    IF IsNone(res, "end_time")
    THEN "AttributeError"
    ELSE IF \E key \in {"successful_renewals", "skipped_renewals", "failed_renewals"} :
                IsNone(res, key)
    THEN "TypeError"
    ELSE "none"

\* overall_status with the skipped domains counted as not configured
overall_status_counting_skipped(res) ==
    IF NonEmpty(res, "failed_renewals")
    THEN IF NumberIs(res, "total_domains_configured", 0,
                     Len(res.failed_renewals)
                        + Len(Get(res, "skipped_renewals", <<>>)))
         THEN "FAILURE"
         ELSE "PARTIAL_SUCCESS"
    ELSE IF /\ NumberIs(res, "total_domains_configured", 0, 0)
            /\ NumberIs(res, "domains_processed", 0, 0)
         THEN "NO_DOMAINS_CONFIGURED"
         ELSE "SUCCESS"

\* report_generator.py:39-47
overall_status(res) ==
    IF NonEmpty(res, "failed_renewals")
    THEN IF NumberIs(res, "total_domains_configured", 0, Len(res.failed_renewals))
         THEN "FAILURE"
         ELSE "PARTIAL_SUCCESS"
    ELSE IF /\ NumberIs(res, "total_domains_configured", 0, 0)
            /\ NumberIs(res, "domains_processed", 0, 0)
         THEN "NO_DOMAINS_CONFIGURED"
         ELSE "SUCCESS"

\* report_header with the duration measured at rendering time
report_header_timed(res, now) ==
    << Line("# SSL Certificate Renewal Report - Status",
            IF IsTrue(res, "dry_run") THEN "DRY RUN" ELSE "LIVE RUN",
            overall_status(res), ""),
       Line("Generated", Get(res, "end_time", now), "", ""),
       Line("Duration", now, "", "") >>

\* report_generator.py:49-52, for an end_time that is not None
report_header(res, now) ==
    << Line("# SSL Certificate Renewal Report - Status",
            IF IsTrue(res, "dry_run") THEN "DRY RUN" ELSE "LIVE RUN",
            overall_status(res), ""),
       Line("Generated", Get(res, "end_time", now), "", ""),
       Line("Duration", Shown(res, "duration", "N/A"), "", "") >>

\* report_generator.py:54-60, for collections that are not None
report_summary(res) ==
    << Line("## Summary", "", "", ""),
       Line("Total Domains Configured", Shown(res, "total_domains_configured", 0), "", ""),
       Line("Domains Processed", Shown(res, "domains_processed", 0), "", ""),
       Line("Successful Renewals", Len(Get(res, "successful_renewals", <<>>)), "", ""),
       Line("Skipped", Len(Get(res, "skipped_renewals", <<>>)), "", ""),
       Line("Failed Domains", Len(Get(res, "failed_renewals", <<>>)), "", "") >>

\* report_generator.py:62-67
report_successes(res) ==
    IF ~NonEmpty(res, "successful_renewals")
    THEN <<>>
    ELSE <<Line("## Successful Renewals", "", "", "")>>
         \o [i \in DOMAIN res.successful_renewals |->
                Line("success", res.successful_renewals[i], "", "")]
         \o <<Line("blank", "", "", "")>>

\* report_generator.py:69-74
report_skipped(res) ==
    IF ~NonEmpty(res, "skipped_renewals")
    THEN <<>>
    ELSE <<Line("## Skipped Domains", "", "", "")>>
         \o [i \in DOMAIN res.skipped_renewals |->
                Line("skipped", res.skipped_renewals[i], "", "")]
         \o <<Line("blank", "", "", "")>>

\* report_generator.py:91-96: the status line of one deployment outcome
deployment_line(deploy_res) ==
    LET server_name == Shown(deploy_res, "server", "Unknown Server")
        success == IsTrue(deploy_res, "success")
        message == Shown(deploy_res, "message", "No message.")
        status_icon == IF success THEN "check" ELSE "cross"
    IN  Line("status", status_icon, server_name, message)

\* failure_block with the deployment outcomes rendered last to first
failure_block_reversed(failure_details) ==
    LET domain == Shown(failure_details, "domain", <<"Unknown">>)
        issue_error == Shown(failure_details, "issue_error", None)
        deployment_results ==
            IF NonEmpty(failure_details, "deployment_results")
            THEN failure_details.deployment_results ELSE <<>>
        n == Len(deployment_results)
    IN  <<Line("### Domain", domain, "", "")>>
        \o (IF issue_error \notin {None, ""}
            THEN <<Line("Issuance Error", issue_error, "", "")>>
            ELSE <<>>)
        \o (IF deployment_results # <<>>
            THEN <<Line("Deployment Status", "", "", "")>>
                 \o [i \in DOMAIN deployment_results |->
                        deployment_line(deployment_results[n + 1 - i])]
                 \o <<Line("blank", "", "", "")>>
            ELSE <<>>)
        \o <<Line("---", "", "", "")>>

\* report_generator.py:80-99: the block of one failed domain
failure_block(failure_details) ==
    LET domain == Shown(failure_details, "domain", <<"Unknown">>)
        issue_error == Shown(failure_details, "issue_error", None)
        deployment_results ==
            IF NonEmpty(failure_details, "deployment_results")
            THEN failure_details.deployment_results ELSE <<>>
    IN  <<Line("### Domain", domain, "", "")>>
        \o (IF issue_error \notin {None, ""}
            THEN <<Line("Issuance Error", issue_error, "", "")>>
            ELSE <<>>)
        \o (IF deployment_results # <<>>
            THEN <<Line("Deployment Status", "", "", "")>>
                 \o [i \in DOMAIN deployment_results |->
                        deployment_line(deployment_results[i])]
                 \o <<Line("blank", "", "", "")>>
            ELSE <<>>)
        \o <<Line("---", "", "", "")>>

\* report_generator.py:76-100
report_failures(res) ==
    IF ~NonEmpty(res, "failed_renewals")
    THEN <<>>
    ELSE <<Line("## Failed Domains", "", "", "")>>
         \o Concat([i \in DOMAIN res.failed_renewals |->
                       failure_block(res.failed_renewals[i])])
         \o <<Line("blank", "", "", "")>>

\* report_generator.py:7-105: the text returned when no exception leaves the
\* function; now is what datetime.now() reads
generate_markdown_report(res, now) ==
    report_header(res, now)
    \o report_summary(res)
    \o report_successes(res)
    \o report_skipped(res)
    \o report_failures(res)
    \o <<Line("---", "", "", ""), Line("End of Report", "", "", "")>>

----------------------------------------------------------------------------
(* The functions applied on their own: is_certificate_due_for_renewal, the
   issuance target of main.py:152-156 and generate_markdown_report, each on
   enumerated arguments. *)

\* the largest total_domains_configured and the longest failed_renewals
\* enumerated
MaxConfigured == 3
MaxFailed == 2

\* days of validity left, and thresholds in days
Validities == {-1, 0, 1, 29, 30, 31, 360, 365, 366}
Thresholds == {0, 1, 30, 360, 365, 366}

DueCerts == {NoLocalCert} \cup [readable : {TRUE}, expiry : {Today + v : v \in Validities}]

DueInputs ==
    [fn : {"is_certificate_due_for_renewal"}, cert : DueCerts,
     threshold_days : Thresholds, now : {Today}, done : {FALSE}, value : {FALSE}]

\* domain names of one to four labels
NamedDomains == {<<"localhost">>, <<"example", "com">>,
                 <<"app", "example", "com">>, <<"a", "b", "example", "com">>}

TargetInputs ==
    [fn : {"issuance_target"}, target_domain : NamedDomains, answer : DnsEnv,
     done : {FALSE}, value : {<<>>}]

\* entries of failed_renewals: as appended at main.py:142, at 224 and at 222
FailureRecords ==
    { [domain |-> <<"N/A">>, error |-> MissingDomainError],
      [domain |-> <<"example", "com">>,
       issue_error |-> "ACME account registration failed",
       deployment_results |-> <<>>],
      [domain |-> <<"app", "example", "com">>, issue_error |-> "None",
       deployment_results |->
          << [server |-> "A", success |-> FALSE, message |-> error_msg("upload")],
             [server |-> "B", success |-> TRUE, message |-> SuccessMsg] >>],
      [domain |-> <<"example", "com">>, issue_error |-> "None",
       deployment_results |->
          << [server |-> "ghost", success |-> FALSE, message |-> NotFoundMsg] >>] }

FailureSeqs == UNION {[1..n -> FailureRecords] : n \in 0..MaxFailed}

DomainSeqs == {<<>>} \cup {<<d>> : d \in TargetDomains}

\* the time of the end of a run, and what datetime.now() may read later
EndTime == 500
Clocks == {501, 502}

\* results structures, with the end_time main sets and without it
ResultStructures ==
    LET bare == [total_domains_configured : 0..MaxConfigured,
                 domains_processed : 0..MaxConfigured,
                 successful_renewals : DomainSeqs,
                 skipped_renewals : DomainSeqs,
                 failed_renewals : FailureSeqs,
                 dry_run : BOOLEAN,
                 duration : {"0h 5m 0s"}]
    IN  bare \cup {b @@ [end_time |-> EndTime] : b \in bare}

ReportInputs ==
    [fn : {"generate_markdown_report"}, results : ResultStructures,
     done : {FALSE}, value : {<<>>}, again : {<<>>}]

\* the states a key of a dictionary can be in: held with a value, absent,
\* held with None
KeyStates == {"held", "absent", "null"}

\* the dictionaries got from d by leaving out, or setting to None, some of
\* the given keys
Defects(d, keys) ==
    { [k \in {x \in DOMAIN d : x \notin keys \/ f[x] = "held"} |-> d[k]]
         @@ [null_fields |-> {k \in keys : f[k] = "null"}] :
      f \in [keys -> KeyStates] }

TopLevelFields == {"end_time", "duration", "total_domains_configured",
                   "domains_processed", "successful_renewals",
                   "skipped_renewals", "failed_renewals", "dry_run"}

\* a complete deployment outcome, a complete entry of failed_renewals and a
\* complete results structure (report_generator.py:13-32)
CompleteOutcome == [server |-> "A", success |-> TRUE, message |-> SuccessMsg]
CompleteFailure == [domain |-> <<"app", "example", "com">>,
                    issue_error |-> "acme.sh certificate issuance failed",
                    deployment_results |-> <<CompleteOutcome>>]
CompleteResults == [total_domains_configured |-> 3,
                    domains_processed |-> 3,
                    successful_renewals |-> <<<<"example", "com">>>>,
                    skipped_renewals |-> <<<<"localhost">>>>,
                    failed_renewals |-> <<CompleteFailure>>,
                    dry_run |-> TRUE,
                    duration |-> "0h 5m 0s",
                    end_time |-> EndTime]

\* the results dictionary as main builds it before the run (main.py:239-249)
InitialResults == [total_domains_configured |-> 0,
                   domains_processed |-> 0,
                   successful_renewals |-> <<>>,
                   skipped_renewals |-> <<>>,
                   failed_renewals |-> <<>>,
                   dry_run |-> FALSE,
                   null_fields |-> {"end_time", "duration"}]

\* results structures with missing or null fields: at the top level, and
\* inside the entry of a failed domain and its deployment outcome
MalformedResults ==
    {InitialResults}
    \cup Defects(CompleteResults, TopLevelFields)
    \cup { [CompleteResults EXCEPT !.failed_renewals = <<entry>>] :
             entry \in UNION
                { Defects([CompleteFailure EXCEPT !.deployment_results = <<o>>],
                          {"domain", "issue_error", "deployment_results"}) :
                  o \in Defects(CompleteOutcome, {"server", "success", "message"}) } }

MalformedInputs ==
    [fn : {"generate_markdown_report on malformed results"},
     results : MalformedResults, done : {FALSE}, exc : {"none"}, value : {<<>>}]

\* cert_manager.py:45-69 applied to the arguments
ApplyDue ==
    /\ applied.fn = "is_certificate_due_for_renewal"
    /\ ~applied.done
    /\ applied' = [applied EXCEPT
          !.done = TRUE,
          !.value = is_certificate_due_for_renewal(applied.cert,
                        applied.threshold_days, applied.now)]
    /\ UNCHANGED <<dry_run, deploy_vars, domain_vars, run>>

\* main.py:152-156 applied to the arguments; the value is the domain
\* argument of issue_certificate at main.py:174
ApplyTarget ==
    /\ applied.fn = "issuance_target"
    /\ ~applied.done
    /\ applied' = [applied EXCEPT
          !.done = TRUE,
          !.value = issuance_target(applied.target_domain, applied.answer)]
    /\ UNCHANGED <<dry_run, deploy_vars, domain_vars, run>>

\* report_generator.py:7-105 applied twice to the same results, at two
\* readings of the clock; the function assigns nothing to results
ApplyReport ==
    /\ applied.fn = "generate_markdown_report"
    /\ ~applied.done
    /\ \E now1 \in Clocks, now2 \in Clocks :
         applied' = [applied EXCEPT
            !.done = TRUE,
            !.value = generate_markdown_report(applied.results, now1),
            !.again = generate_markdown_report(applied.results, now2)]
    /\ UNCHANGED <<dry_run, deploy_vars, domain_vars, run>>

\* report_generator.py:7-105 applied to a results structure with missing or
\* null fields: exc is the exception that leaves the call, value the text
\* returned
ApplyReportMalformed ==
    /\ applied.fn = "generate_markdown_report on malformed results"
    /\ ~applied.done
    /\ \E now \in Clocks :
         applied' = [applied EXCEPT
            !.done = TRUE,
            !.exc = report_raises(applied.results),
            !.value = IF report_raises(applied.results) = "none"
                      THEN generate_markdown_report(applied.results, now)
                      ELSE <<>>]
    /\ UNCHANGED <<dry_run, deploy_vars, domain_vars, run>>

InitFunctions ==
    /\ dry_run = FALSE
    /\ DeployIdle
    /\ domain_info = NoDomainInfo
    /\ servers_map = <<>>
    /\ local_cert = NoLocalCert
    /\ results = EmptyResults
    /\ dpc = "idle"
    /\ domain_to_issue = <<>>
    /\ domain_result = NoDomainResult
    /\ server_index = 0
    /\ net = NoCalls
    /\ run = NoRun
    /\ \/ applied \in DueInputs
       \/ applied \in TargetInputs
       \/ applied \in ReportInputs
       \/ applied \in MalformedInputs

NextFunctions ==
    \/ ApplyDue
    \/ ApplyTarget
    \/ ApplyReport
    \/ ApplyReportMalformed

SpecFunctions == InitFunctions /\ [][NextFunctions]_vars

----------------------------------------------------------------------------
(* main: the credentials check, the loading of the two configuration files,
   the loop over the domain entries and the report. *)

\* the longest list of domain entries enumerated
MaxDomains == 2

\* the entries of domains.yaml enumerated: one without a domain field, one
\* deployed to a usable server, one without servers
MainEntries ==
    { [domain |-> <<>>, servers |-> <<"A">>],
      [domain |-> <<"app", "example", "com">>, servers |-> <<"A">>],
      [domain |-> <<"example", "com">>, servers |-> <<>>] }

MainDomainLists == UNION {[1..n -> MainEntries] : n \in 0..MaxDomains}

\* the local certificates of the entries of a run: due, and not due
MainCerts == {c \in LocalCerts : c.readable /\ c.expiry # Today + renewal_threshold_days}

\* the results dictionary as generate_markdown_report reads it
ReportView ==
    [total_domains_configured |-> run.total_domains_configured,
     domains_processed |-> results.domains_processed,
     successful_renewals |-> results.successful_renewals,
     skipped_renewals |-> results.skipped_renewals,
     failed_renewals |-> results.failed_renewals,
     dry_run |-> dry_run,
     duration |-> "0h 5m 0s",
     end_time |-> EndTime]

\* main.py:262-267: the credentials
MainStart ==
    /\ run.mpc = "start"
    /\ IF ~(run.acme_email /\ run.ionos_api_key)
       THEN run' = [run EXCEPT !.mpc = "aborted"]
       ELSE run' = [run EXCEPT !.mpc = "load"]
    /\ UNCHANGED <<dry_run, deploy_vars, domain_vars, applied>>

\* LoadConfigs testing domains_config alone
LoadConfigs_domains_only ==
    /\ run.mpc = "load"
    /\ IF run.domains_config = "none"
       THEN /\ run' = [run EXCEPT !.mpc = "aborted"]
            /\ UNCHANGED servers_map
       ELSE /\ run' = [run EXCEPT !.mpc = "loop", !.next = 1,
                          !.total_domains_configured = Len(run.domains)]
            /\ servers_map' = Inventory
    /\ UNCHANGED <<dry_run, deploy_vars, domain_info, local_cert, results, dpc,
                   domain_to_issue, domain_result, server_index, net, applied>>

\* main.py:271-280: the two configuration files, the count of the entries
\* and the inventory by name
LoadConfigs ==
    /\ run.mpc = "load"
    /\ IF run.domains_config = "none" \/ run.servers_config = "none"
       THEN /\ run' = [run EXCEPT !.mpc = "aborted"]
            /\ UNCHANGED servers_map
       ELSE /\ run' = [run EXCEPT !.mpc = "loop", !.next = 1,
                          !.total_domains_configured = Len(run.domains)]
            /\ servers_map' = Inventory
    /\ UNCHANGED <<dry_run, deploy_vars, domain_info, local_cert, results, dpc,
                   domain_to_issue, domain_result, server_index, net, applied>>

\* main.py:282-283: process_domain is called on the next entry of the list
CallProcessDomain ==
    /\ run.mpc = "loop"
    /\ run.next <= Len(run.domains)
    /\ domain_info' = run.domains[run.next]
    /\ local_cert' \in MainCerts
    /\ dpc' = "entry"
    /\ domain_to_issue' = <<>>
    /\ domain_result' = NoDomainResult
    /\ server_index' = 0
    /\ run' = [run EXCEPT !.mpc = "in_domain",
                          !.handled = Append(@, run.domains[run.next])]
    /\ UNCHANGED <<dry_run, deploy_vars, servers_map, results, net, applied>>

\* ReturnToMain with a failed domain ending the run
ReturnToMain_aborting_on_failure ==
    /\ run.mpc = "in_domain"
    /\ dpc = "returned"
    /\ dpc' = "idle"
    /\ run' = [run EXCEPT
          !.mpc = IF results.failed_renewals # <<>> THEN "aborted" ELSE "loop",
          !.next = @ + 1]
    /\ domain_info' = NoDomainInfo
    /\ local_cert' = NoLocalCert
    /\ domain_to_issue' = <<>>
    /\ domain_result' = NoDomainResult
    /\ server_index' = 0
    /\ net' = NoCalls
    /\ UNCHANGED <<dry_run, deploy_vars, servers_map, results, applied>>

\* main.py:282: process_domain has returned and its locals are gone; the
\* loop goes on
ReturnToMain ==
    /\ run.mpc = "in_domain"
    /\ dpc = "returned"
    /\ dpc' = "idle"
    /\ run' = [run EXCEPT !.mpc = "loop", !.next = @ + 1]
    /\ domain_info' = NoDomainInfo
    /\ local_cert' = NoLocalCert
    /\ domain_to_issue' = <<>>
    /\ domain_result' = NoDomainResult
    /\ server_index' = 0
    /\ net' = NoCalls
    /\ UNCHANGED <<dry_run, deploy_vars, servers_map, results, applied>>

\* main.py:285-301: the loop has ended; the report is rendered and written,
\* a failure to write it being logged
FinishRun ==
    /\ run.mpc = "loop"
    /\ run.next > Len(run.domains)
    /\ \E saved \in BOOLEAN :
         run' = [run EXCEPT !.mpc = "finished",
                            !.report = generate_markdown_report(ReportView, EndTime),
                            !.report_saved = saved]
    /\ UNCHANGED <<dry_run, deploy_vars, domain_vars, applied>>

InitMain ==
    /\ dry_run \in BOOLEAN
    /\ DeployIdle
    /\ domain_info = NoDomainInfo
    /\ servers_map = <<>>
    /\ local_cert = NoLocalCert
    /\ results = EmptyResults
    /\ dpc = "idle"
    /\ domain_to_issue = <<>>
    /\ domain_result = NoDomainResult
    /\ server_index = 0
    /\ net = NoCalls
    /\ applied = NoApplication
    /\ run \in [mpc : {"start"},
                acme_email : BOOLEAN, ionos_api_key : BOOLEAN,
                domains_config : {"loaded", "none"},
                servers_config : {"loaded", "none"},
                domains : MainDomainLists,
                next : {0},
                total_domains_configured : {0},
                handled : {<<>>},
                report : {<<>>},
                report_saved : {FALSE}]

NextMain ==
    \/ MainStart
    \/ LoadConfigs
    \/ CallProcessDomain
    \/ ReturnToMain
    \/ FinishRun
    \/ NextDomain

SpecMain == InitMain /\ [][NextMain]_vars

\* the run as scheduled: main is one thread and every call it makes returns
SpecMainFair == SpecMain /\ WF_vars(NextMain)

----------------------------------------------------------------------------
(* Vocabulary of the properties *)

Done == pc = "done"

\* a non-dry-run deployment on a server with a complete config
LiveDeployment == ~dry_run /\ server_config = RequiredFields

\* the operations issued, in order
Ops == [i \in DOMAIN calls |-> calls[i].op]

StepOk(step) == \E i \in DOMAIN calls : calls[i].step = step /\ calls[i].ok
StepFailed(step) == \E i \in DOMAIN calls : calls[i].step = step /\ ~calls[i].ok
Issued(step) == \E i \in DOMAIN calls : calls[i].step = step

RollbackStarted == rollback # "none"

\* the server had a live fullchain and a live key before the deployment
HadLivePair == pre_remote.fullchain # Absent /\ pre_remote.privkey # Absent

LiveUnchanged ==
    /\ remote.fullchain = pre_remote.fullchain
    /\ remote.privkey = pre_remote.privkey

\* the environment let every command of the given steps through
TransportFine(steps) ==
    \A i \in DOMAIN calls : calls[i].step \in steps => calls[i].env = "ok"

----------------------------------------------------------------------------
(* Properties *)

\* C1: rollback completeness.  When a non-dry-run deployment on a complete
\* config has returned, both uploads having succeeded and the nginx
\* configuration validation having reported a non-success result, the live
\* fullchain.pem and privkey.pem hold what they held before the call.
C1_RollbackCompleteness ==
    (Done /\ LiveDeployment /\ StepOk("upload_fullchain") /\ StepOk("upload_key")
          /\ StepFailed("validate"))
        => LiveUnchanged

\* C2: a non-success result of the remote configuration self-test aborts a
\* non-dry-run deployment: rollback is started and success=false is returned.
C2_ValidationFailureAborts ==
    (Done /\ LiveDeployment /\ StepFailed("validate"))
        => (RollbackStarted /\ outcome.success = FALSE)

\* C3: a failure of the reload command of step 4 aborts a non-dry-run
\* deployment: rollback is started and success=false is returned.
C3_ReloadFailureAborts ==
    (Done /\ LiveDeployment /\ StepFailed("reload"))
        => (RollbackStarted /\ ~outcome.success)

\* C4: a failed HTTPS status check, or a live certificate with fewer than the
\* minimum days of validity left, aborts a non-dry-run deployment: rollback is
\* started and success=false is returned.
C4_HealthFailureAborts ==
    (Done /\ LiveDeployment
          /\ (StepFailed("health_https") \/ StepFailed("health_expiry")))
        => (rollback # "none" /\ ~outcome.success)

\* C5: in a non-dry-run deployment the fullchain is uploaded before the key,
\* and once an upload has failed no later step of the sequence is executed
\* (only rollback commands follow), rollback is started, and the call returns
\* success=false.
C5_UploadFailureAborts ==
    LiveDeployment =>
        /\ \A j \in DOMAIN calls : calls[j].op = "upload_privkey" =>
              \E i \in 1..(j - 1) : calls[i].op = "upload_fullchain" /\ calls[i].ok
        /\ \A i \in DOMAIN calls :
              (calls[i].step \in {"upload_fullchain", "upload_key"} /\ ~calls[i].ok) =>
                  /\ \A j \in DOMAIN calls : j > i => calls[j].step = "rollback"
                  /\ RollbackStarted
                  /\ pc \notin {"upload_key", "validate", "reload", "health_https",
                                "health_expiry", "cleanup"}
                  /\ Done => ~outcome.success

\* C5 witness: the fullchain went up, the upload of the key failed, and the
\* deployment returned a failure after starting the rollback
C5_Witness ==
    /\ Done /\ LiveDeployment
    /\ StepOk("upload_fullchain") /\ StepFailed("upload_key")
    /\ RollbackStarted /\ ~outcome.success

\* C6: whenever a non-dry-run deployment aborts after the backup step on a
\* server that had a live fullchain and key (the remote shell refusing no
\* backup or rollback command), the rollback moves the .bak fullchain and the
\* .bak key back over the live paths and then re-issues the reload command.
C6_RollbackMovesBothThenReloads ==
    (Done /\ LiveDeployment /\ error # "" /\ HadLivePair
          /\ TransportFine({"backup", "rollback"}))
        => \E i, j, k \in DOMAIN calls :
              /\ i < j /\ j < k
              /\ calls[i].op = "mv_fullchain_bak" /\ calls[i].ok
              /\ calls[j].op = "mv_privkey_bak" /\ calls[j].ok
              /\ calls[k].op = "reload" /\ calls[k].step = "rollback"

\* C7: if a rollback command fails, the message of the returned outcome
\* reports it, so that it differs from the message of a failed deployment
\* whose rollback succeeded.
C7_RollbackFailureInMessage ==
    (Done /\ rollback = "FAILED") => outcome.message # error_msg(error)

\* C8: in a non-dry-run deployment on a server that had a live pair, at the
\* moment of any upload the .bak pair holds the pre-deployment live pair (the
\* remote shell having run the backup).
C8_BackupHoldsLivePair ==
    (pc \in {"upload_fullchain", "upload_key"} /\ LiveDeployment /\ HadLivePair
          /\ TransportFine({"backup"}))
        => /\ remote.fullchain_bak = pre_remote.fullchain
           /\ remote.privkey_bak = pre_remote.privkey

\* C9: each step runs only if the preceding one succeeded: no reload of step 4
\* after a failed validation, no health check after a failed reload, no .bak
\* cleanup after a failed health check.
C9_StepNeedsPredecessor ==
    LiveDeployment =>
        /\ ~(StepFailed("validate") /\ Issued("reload"))
        /\ ~(StepFailed("reload") /\ (Issued("health_https") \/ Issued("health_expiry")))
        /\ ~((StepFailed("health_https") \/ StepFailed("health_expiry"))
                /\ Issued("cleanup"))

\* C10: a non-dry-run deployment that returned success issued exactly: backup
\* copy, upload of the fullchain, upload of the key, configuration validation,
\* reload, the two health checks, removal of the backup; and no mv of a .bak.
C10_SuccessfulCallOrder ==
    (Done /\ LiveDeployment /\ outcome.success)
        => Ops = <<"cp_fullchain_bak", "upload_fullchain", "upload_privkey",
                   "nginx_t", "reload", "check_https_status",
                   "verify_cert_expiry", "rm_bak">>

\* C10 witness: a deployment whose every step succeeded has returned success
C10_Witness ==
    /\ Done /\ LiveDeployment /\ outcome.success
    /\ Len(calls) > 0
    /\ \A i \in DOMAIN calls : calls[i].ok

C12_BestEffortSteps ==
    LiveDeployment =>
        /\ StepFailed("backup") =>
              \/ pc = "upload_fullchain" /\ rollback = "none" /\ error = ""
              \/ Len(calls) >= 2 /\ calls[2].op = "upload_fullchain"
        /\ StepFailed("cleanup") =>
              /\ pc \in {"close", "done"}
              /\ outcome = [success |-> TRUE, message |-> SuccessMsg]
              /\ rollback = "none" /\ ~Issued("rollback")

\* C12 witness: the backup failed, steps 2-5 succeeded, the removal of the
\* .bak files failed, and the call returned success
C12_Witness ==
    /\ Done /\ LiveDeployment
    /\ StepFailed("backup") /\ StepFailed("cleanup")
    /\ StepOk("upload_fullchain") /\ StepOk("upload_key") /\ StepOk("validate")
    /\ StepOk("reload") /\ StepOk("health_https") /\ StepOk("health_expiry")
    /\ CleanupFailedLog \in log
    /\ outcome.success

\* C14: dry-run safety.  With dry_run true no operation reaches the SSH
\* transport (no connection, no transfer, no remote command: each
\* short-circuits to a simulated success), the remote files are untouched,
\* the health checks are not performed, no rollback command is issued, and a
\* complete server config returns success.
C14_DryRunSafety ==
    dry_run =>
        /\ \A i \in DOMAIN calls : ~calls[i].wire /\ calls[i].ok
        /\ session = "none"
        /\ remote = pre_remote
        /\ ~Issued("health_https") /\ ~Issued("health_expiry")
        /\ rollback = "none" /\ ~Issued("rollback")
        /\ (Done /\ server_config = RequiredFields) => outcome.success

\* C14 witness: a dry run on a complete config has gone through the six
\* simulated operations and returned success
C14_Witness ==
    /\ Done /\ dry_run /\ server_config = RequiredFields
    /\ Ops = <<"cp_fullchain_bak", "upload_fullchain", "upload_privkey",
               "nginx_t", "reload", "rm_bak">>
    /\ outcome.success

----------------------------------------------------------------------------
(* Properties of process_domain *)

Returned == dpc = "returned"

\* the issuance was attempted and raised nothing
IssuedOk ==
    /\ net.issued # <<>>
    /\ dpc \in {"servers", "next_server", "deploying", "classify", "returned"}
    /\ domain_result.issue_error = "None"

Outcomes == domain_result.deployment_results

\* the i-th listed server has an entry in the inventory that lacks a field
IncompleteAt(i) ==
    /\ InInventory(servers_map, domain_info.servers[i])
    /\ servers_map[domain_info.servers[i]] # RequiredFields

\* C13: a server config lacking one of the five fields makes
\* deploy_certificate return success=false at once, with no RemoteDeployer
\* session, no connection and no transport call; the outcome is recorded for
\* that server and the remaining servers of the list are still processed.
C13_IncompleteConfig ==
    /\ (pc # "idle" /\ server_config # RequiredFields) =>
          /\ pc \in {"start", "done"}
          /\ calls = <<>> /\ session = "none"
          /\ pc = "done" => outcome = [success |-> FALSE, message |-> IncompleteMsg]
    /\ \A i \in DOMAIN Outcomes :
          (domain_info.servers # <<>> /\ IncompleteAt(i)) =>
              /\ Outcomes[i] = [server |-> domain_info.servers[i],
                                success |-> FALSE, message |-> IncompleteMsg]
              /\ i \notin net.touched
    /\ (Returned /\ IssuedOk /\ domain_info.servers # <<>>) =>
          Len(Outcomes) = Len(domain_info.servers)

\* C13 witness: the first listed server has an incomplete entry, and the
\* second one was deployed to
C13_Witness ==
    /\ Returned /\ ~dry_run
    /\ domain_info.servers = <<"C", "A">>
    /\ Len(Outcomes) = 2
    /\ Outcomes[1].message = IncompleteMsg
    /\ Outcomes[2].success
    /\ net.touched = {2}

\* C15: idempotent skip.  A domain whose local certificate is not within the
\* renewal threshold is, in a live run, classified as skipped with no network
\* or remote call made for it: no DNS resolution, no issuance, no deployment.
C15_SkipMakesNoCalls ==
    (Returned /\ ~dry_run /\ domain_info.domain # <<>>
        /\ ~is_certificate_due_for_renewal(local_cert, renewal_threshold_days, Today))
        => /\ results.skipped_renewals = <<domain_info.domain>>
           /\ net.dns = <<>> /\ net.issued = <<>> /\ net.touched = {}
           /\ calls = <<>>

\* C16: no deploy on issuance failure.  The error text is recorded as
\* issue_error, the domain is appended to failed_renewals with an empty list
\* of deployment results, and no call is made to any server.
C16_NoDeployOnIssuanceFailure ==
    (net.issued # <<>> /\ domain_result.issue_error # "None") =>
        /\ Returned
        /\ domain_result.issue_error \in {"ACME account registration failed",
                                          "acme.sh certificate issuance failed"}
        /\ Outcomes = <<>>
        /\ results.failed_renewals = <<domain_result>>
        /\ results.successful_renewals = <<>> /\ results.skipped_renewals = <<>>
        /\ net.touched = {} /\ calls = <<>> /\ pc = "idle" /\ session = "none"

\* C16 witness: the issuance failed for a domain that lists deployable servers
C16_Witness ==
    /\ Returned /\ ~dry_run
    /\ domain_result.issue_error = "acme.sh certificate issuance failed"
    /\ domain_info.servers = <<"A", "B">>
    /\ results.failed_renewals = <<domain_result>>
    /\ net.touched = {}

\* C17: fan-out independence.  After a successful issuance for a domain
\* listing n >= 1 servers, process_domain has recorded n outcomes, the i-th
\* for the i-th listed name; every listed server with a complete entry was
\* deployed to, whatever the earlier outcomes; and one failed outcome makes
\* the domain failed.
C17_FanOutIndependence ==
    /\ (IssuedOk /\ domain_info.servers # <<>>) =>
          /\ Len(Outcomes) <= Len(domain_info.servers)
          /\ \A i \in DOMAIN Outcomes :
                /\ Outcomes[i].server = domain_info.servers[i]
                /\ (i \in net.touched) <=>
                      (/\ InInventory(servers_map, domain_info.servers[i])
                       /\ ~IncompleteAt(i))
    /\ (Returned /\ IssuedOk /\ domain_info.servers # <<>>) =>
          /\ Len(Outcomes) = Len(domain_info.servers)
          /\ (\E i \in DOMAIN Outcomes : ~Outcomes[i].success) =>
                /\ results.failed_renewals = <<domain_result>>
                /\ results.successful_renewals = <<>>

\* C17 witness: the deployment to the first server failed at an upload, the
\* second server was still deployed to, successfully, and the domain is failed
C17_Witness ==
    /\ Returned /\ ~dry_run
    /\ domain_info.servers = <<"A", "B">>
    /\ Len(Outcomes) = 2
    /\ ~Outcomes[1].success /\ Outcomes[1].message.kind = "FAILED"
    /\ Outcomes[2].success
    /\ net.touched = {1, 2}
    /\ results.failed_renewals = <<domain_result>>

\* C18: a listed server name that is absent from the inventory yields a
\* failed outcome for that name, with no deployment call made for it, and the
\* remaining listed servers are still processed.
C18_UnknownServer ==
    /\ dpc = "deploying" =>
          InInventory(servers_map, domain_info.servers[server_index])
    /\ \A i \in DOMAIN Outcomes :
          (domain_info.servers # <<>>
              /\ ~InInventory(servers_map, domain_info.servers[i])) =>
                /\ Outcomes[i] = [server |-> domain_info.servers[i],
                                  success |-> FALSE, message |-> NotFoundMsg]
                /\ i \notin net.touched
    /\ (Returned /\ IssuedOk /\ domain_info.servers # <<>>) =>
          /\ Len(Outcomes) = Len(domain_info.servers)
          /\ \A i \in DOMAIN Outcomes :
                (InInventory(servers_map, domain_info.servers[i]) /\ ~IncompleteAt(i))
                    => i \in net.touched

\* C18 witness: an unknown name first, then a server that was deployed to
C18_Witness ==
    /\ Returned
    /\ domain_info.servers = <<"ghost", "A">>
    /\ Len(Outcomes) = 2
    /\ Outcomes[1].message = NotFoundMsg /\ ~Outcomes[1].success
    /\ Outcomes[2].success
    /\ net.touched = {2}

\* C19: a domain that went to issuance is appended to successful_renewals
\* exactly when the issuance raised nothing and every recorded outcome has
\* success=true, and to failed_renewals otherwise; an entry listing no servers
\* gets one synthetic successful outcome and is classified successful.
C19_Classification ==
    (Returned /\ net.issued # <<>>) =>
        LET ok == /\ domain_result.issue_error = "None"
                  /\ \A i \in DOMAIN Outcomes : Outcomes[i].success
        IN  /\ ok => /\ results.successful_renewals = <<domain_info.domain>>
                     /\ results.failed_renewals = <<>>
            /\ ~ok => /\ results.successful_renewals = <<>>
                      /\ results.failed_renewals = <<domain_result>>
            /\ results.skipped_renewals = <<>>
            /\ (domain_info.servers = <<>> /\ domain_result.issue_error = "None") =>
                  /\ Outcomes = <<[server |-> "N/A", success |-> TRUE,
                                   message |-> NoTargetsMsg]>>
                  /\ results.successful_renewals = <<domain_info.domain>>

\* C19 witness: an entry without servers, issued and classified successful
C19_Witness ==
    /\ Returned /\ ~dry_run
    /\ domain_info.servers = <<>>
    /\ Len(Outcomes) = 1 /\ Outcomes[1].server = "N/A"
    /\ results.successful_renewals = <<domain_info.domain>>

\* C20: a domain entry without a domain field is counted as processed and
\* appended to failed_renewals with a structural error; no DNS resolution, no
\* issuance and no deployment is made for it, and process_domain returns.
C20_MissingDomainField ==
    (domain_info.domain = <<>>) =>
        \/ dpc = "entry" /\ results = EmptyResults
        \/ /\ Returned
           /\ results = [EmptyResults EXCEPT
                 !.domains_processed = 1,
                 !.failed_renewals = <<[domain |-> <<"N/A">>,
                                        error |-> MissingDomainError]>>]
           /\ net = NoCalls /\ calls = <<>> /\ pc = "idle"

\* C20 witness: an entry without a domain field that lists servers has been
\* recorded as failed
C20_Witness ==
    /\ Returned
    /\ domain_info.domain = <<>> /\ domain_info.servers = <<"A", "B">>
    /\ results.domains_processed = 1
    /\ Len(results.failed_renewals) = 1

\* the renewal decision of process_domain has been taken
Decided == dpc \in {"issue", "servers", "next_server", "deploying", "classify", "returned"}

\* the certificate of the entry is due for renewal at the time of the run
Due == is_certificate_due_for_renewal(local_cert, renewal_threshold_days, Today)

\* C21: renewal decision.  An entry with a domain field proceeds to issuance
\* exactly when its certificate is due or the run is a dry run; a dry run
\* never classifies such an entry as skipped, and a live run classifies an
\* entry that is not due as skipped, with no issuance.
C21_RenewalDecision ==
    (domain_info.domain # <<>> /\ Decided) =>
        /\ (dpc # "returned" \/ net.issued # <<>>) <=> (Due \/ dry_run)
        /\ Returned => (net.issued # <<>>) <=> (Due \/ dry_run)
        /\ dry_run => results.skipped_renewals = <<>>
        /\ (~dry_run /\ ~Due) =>
              /\ Returned
              /\ results.skipped_renewals = <<domain_info.domain>>
              /\ results.successful_renewals = <<>> /\ results.failed_renewals = <<>>
              /\ net.issued = <<>>
        /\ (Due \/ dry_run) => (Returned => Len(net.issued) = 1)

\* C21 witness: a dry run has issued for an entry whose certificate is not due
C21_Witness ==
    /\ Returned /\ dry_run /\ ~Due /\ local_cert.readable
    /\ domain_info.domain # <<>>
    /\ net.issued # <<>>
    /\ results.skipped_renewals = <<>>

\* C25: within one domain's rollout the servers are handled one after the
\* other: while a deployment runs, the outcomes of all earlier servers have
\* been recorded and no later server has been touched; transport calls are
\* made only inside a running deployment; and the classification is computed
\* only after the last listed server's sequence has concluded and its outcome
\* has been recorded.
C25_OneServerAtATime ==
    /\ dpc = "deploying" =>
          /\ Len(Outcomes) = server_index - 1
          /\ \A i \in net.touched : i < server_index
          /\ server_index \in 1..Len(domain_info.servers)
    /\ dpc = "next_server" =>
          /\ Len(Outcomes) = server_index - 1
          /\ \A i \in net.touched : i < server_index
    /\ (dpc # "deploying" /\ dpc # "standalone") =>
          /\ pc = "idle" /\ calls = <<>> /\ session = "none"
    /\ (dpc \in {"classify", "returned"} /\ IssuedOk /\ domain_info.servers # <<>>) =>
          /\ Len(Outcomes) = Len(domain_info.servers)
          /\ server_index = Len(domain_info.servers) + 1
    /\ (results.successful_renewals # <<>> \/ results.failed_renewals # <<>>) =>
          Returned

\* C25 witness: the second server's sequence is under way after the first
\* server's deployment failed, was rolled back and was recorded
C25_Witness ==
    /\ dpc = "deploying" /\ ~dry_run
    /\ server_index = 2
    /\ calls # <<>>
    /\ Len(Outcomes) = 1 /\ ~Outcomes[1].success
    /\ net.touched = {1}

----------------------------------------------------------------------------
(* Properties of the functions applied on their own *)

\* is_certificate_due_for_renewal has been applied to a readable certificate
DueApplied ==
    /\ applied.fn = "is_certificate_due_for_renewal"
    /\ applied.done
    /\ applied.cert.readable

\* the certificate of the application has v days of validity left
ValidFor(v) == applied.cert.expiry = applied.now + v

C23_IssuanceTarget ==
    (applied.fn = "issuance_target" /\ applied.done) =>
        LET d == applied.target_domain
        IN  /\ applied.answer = "private_ip" =>
                  /\ applied.value[1] = "*"
                  /\ Len(d) > 2 => applied.value = <<"*">> \o SubSeq(d, 2, Len(d))
                  /\ Len(d) <= 2 => applied.value = <<"*">> \o d
                  /\ d = <<"app", "example", "com">> =>
                        applied.value = <<"*", "example", "com">>
                  /\ d = <<"example", "com">> =>
                        applied.value = <<"*", "example", "com">>
                  /\ d = <<"localhost">> => applied.value = <<"*", "localhost">>
            /\ applied.answer # "private_ip" => applied.value = d

\* C23 witness: a two-label domain resolved to a private address
C23_Witness ==
    /\ applied.fn = "issuance_target" /\ applied.done
    /\ applied.answer = "private_ip"
    /\ applied.target_domain = <<"example", "com">>
    /\ applied.value = <<"*", "example", "com">>

\* generate_markdown_report has been applied
Rendered == applied.fn = "generate_markdown_report" /\ applied.done

\* the status the header line of the rendered report carries
ReportedStatus == applied.value[1].b

\* C28: the overall status of the report is one of four values:
\* NO_DOMAINS_CONFIGURED when nothing failed and zero domains are configured
\* and processed, SUCCESS when nothing failed otherwise, FAILURE when the
\* number of failed domains is non-zero and equals the number configured,
\* PARTIAL_SUCCESS when some but not all configured domains failed (3
\* configured, 2 failed, 1 skipped is PARTIAL_SUCCESS).
C28_OverallStatus ==
    Rendered =>
        LET R == applied.results
            failed == Len(R.failed_renewals)
            configured == R.total_domains_configured
        IN  /\ applied.value[1].kind = "# SSL Certificate Renewal Report - Status"
            /\ ReportedStatus \in {"NO_DOMAINS_CONFIGURED", "SUCCESS",
                                   "FAILURE", "PARTIAL_SUCCESS"}
            /\ (failed = 0 /\ configured = 0 /\ R.domains_processed = 0)
                  => ReportedStatus = "NO_DOMAINS_CONFIGURED"
            /\ (failed = 0 /\ ~(configured = 0 /\ R.domains_processed = 0))
                  => ReportedStatus = "SUCCESS"
            /\ (failed # 0 /\ failed = configured) => ReportedStatus = "FAILURE"
            /\ (failed # 0 /\ failed < configured) => ReportedStatus = "PARTIAL_SUCCESS"
            /\ (configured = 3 /\ failed = 2 /\ Len(R.skipped_renewals) = 1)
                  => ReportedStatus = "PARTIAL_SUCCESS"

\* C28 witness: 3 configured, 2 failed, 1 skipped, reported PARTIAL_SUCCESS
C28_Witness ==
    /\ Rendered
    /\ applied.results.total_domains_configured = 3
    /\ applied.results.domains_processed = 3
    /\ Len(applied.results.failed_renewals) = 2
    /\ Len(applied.results.skipped_renewals) = 1
    /\ applied.results.successful_renewals = <<>>
    /\ ReportedStatus = "PARTIAL_SUCCESS"

IsOutcomeLine(l) == l.kind \in {"### Domain", "status"}

\* what the failed domains and their outcomes are, in the order of the results
ExpectedOutcomeLines(failed_renewals) ==
    Concat([i \in DOMAIN failed_renewals |->
        LET f == failed_renewals[i]
            outcomes == Get(f, "deployment_results", <<>>)
        IN  <<Line("### Domain", f.domain, "", "")>>
            \o [j \in DOMAIN outcomes |->
                   Line("status",
                        IF outcomes[j].success THEN "check" ELSE "cross",
                        outcomes[j].server, outcomes[j].message)]])

\* C30: the rendered report preserves order: the failed domains appear in
\* the order of failed_renewals, and each is followed by one status line per
\* deployment outcome, in the order of the outcomes, marked as success
\* exactly when the outcome's success is true and carrying its server name
\* and message.
C30_ReportPreservesOrder ==
    Rendered =>
        LET shown == SelectSeq(applied.value, IsOutcomeLine)
            expected == ExpectedOutcomeLines(applied.results.failed_renewals)
        IN  /\ Len(shown) = Len(expected)
            /\ \A i \in DOMAIN shown :
                  /\ shown[i].kind = expected[i].kind
                  /\ shown[i] = expected[i]

\* C30 witness: two failed domains, the first with a failed and a successful
\* outcome, in that order
C30_Witness ==
    /\ Rendered
    /\ Len(applied.results.failed_renewals) = 2
    /\ LET f == applied.results.failed_renewals[1]
       IN  /\ "deployment_results" \in DOMAIN f
           /\ Len(f.deployment_results) = 2
           /\ ~f.deployment_results[1].success
           /\ f.deployment_results[2].success
    /\ applied.results.failed_renewals[2].domain = <<"N/A">>

----------------------------------------------------------------------------
(* Properties of main *)

\* the number of entries classified so far
Classified ==
    Len(results.successful_renewals) + Len(results.skipped_renewals)
        + Len(results.failed_renewals)

\* a credential is missing or a configuration file could not be loaded
Misconfigured ==
    \/ ~run.acme_email
    \/ ~run.ionos_api_key
    \/ run.domains_config = "none"
    \/ run.servers_config = "none"

\* the line of the report with the given wording
ReportLine(kind) ==
    run.report[CHOOSE i \in DOMAIN run.report : run.report[i].kind = kind]

\* C24: run aggregation invariant.  The entries are handed to process_domain
\* in file order; after each call the entry has been added to exactly one of
\* the three collections, so that domains_processed = |successful| +
\* |skipped| + |failed| after every entry; and domains_processed =
\* total_domains_configured when the report is rendered.
C24_RunAggregation ==
    /\ run.handled = SubSeq(run.domains, 1, Len(run.handled))
    /\ run.mpc = "in_domain" =>
          /\ Len(run.handled) = run.next
          /\ domain_info = run.domains[run.next]
          /\ Classified = (IF dpc = "returned" THEN run.next ELSE run.next - 1)
          /\ dpc = "returned" => results.domains_processed = run.next
    /\ run.mpc = "loop" =>
          /\ Len(run.handled) = run.next - 1
          /\ results.domains_processed = run.next - 1
          /\ Classified = results.domains_processed
    /\ run.mpc = "finished" =>
          /\ run.handled = run.domains
          /\ results.domains_processed = run.total_domains_configured
          /\ run.total_domains_configured = Len(run.domains)
          /\ Classified = results.domains_processed
          /\ ReportLine("Domains Processed").a = ReportLine("Total Domains Configured").a
          /\ ReportLine("Domains Processed").a = Len(run.domains)

\* C24 witness: a run of two entries, one without a domain field, has
\* rendered its report
C24_Witness ==
    /\ run.mpc = "finished"
    /\ Len(run.domains) = 2
    /\ run.domains[1].domain = <<>>
    /\ run.domains[2].domain # <<>>
    /\ results.domains_processed = 2
    /\ Len(results.failed_renewals) = 1
    /\ Len(results.successful_renewals) = 1

\* C26: when a credential is missing or the domain map or the server
\* inventory cannot be loaded, main aborts before the first domain is
\* touched: no entry is handed to process_domain and no DNS resolution, no
\* issuance and no deployment call is made.
C26_AbortBeforeFirstDomain ==
    /\ Misconfigured =>
          /\ run.mpc \in {"start", "load", "aborted"}
          /\ run.handled = <<>>
          /\ dpc = "idle" /\ pc = "idle"
          /\ net = NoCalls /\ calls = <<>> /\ session = "none"
          /\ results = EmptyResults
          /\ run.report = <<>>
    /\ (~run.acme_email \/ ~run.ionos_api_key) => run.mpc \in {"start", "aborted"}
    /\ run.mpc = "aborted" => Misconfigured

\* C26 witness: the credentials are set and the domain map lists two
\* entries, but the server inventory could not be loaded
C26_Witness ==
    /\ run.mpc = "aborted"
    /\ run.acme_email /\ run.ionos_api_key
    /\ run.domains_config = "loaded" /\ run.servers_config = "none"
    /\ Len(run.domains) = 2

\* the run has handled every entry and rendered the report
Completed ==
    /\ run.mpc = "finished"
    /\ run.handled = run.domains
    /\ results.domains_processed = Len(run.domains)
    /\ run.report # <<>>

\* C27: run to completion.  Once the configuration has loaded, the run ends
\* with every configured entry processed and the report rendered, whatever
\* issuance, deployment or rollback failures occur; a run aborts only on a
\* configuration error.
C27_RunToCompletion ==
    /\ [](run.mpc = "aborted" => Misconfigured)
    /\ (run.mpc = "loop") ~> Completed

\* C27 witness: a run has completed after a domain whose issuance failed and
\* a domain whose deployment failed
C27_Witness ==
    /\ Completed /\ ~dry_run
    /\ Len(results.failed_renewals) = 2
    /\ \E i, j \in 1..2 :
          LET f == results.failed_renewals[i]
              g == results.failed_renewals[j]
          IN  /\ "issue_error" \in DOMAIN f /\ f.issue_error # "None"
              /\ "deployment_results" \in DOMAIN g
              /\ g.deployment_results # <<>>
              /\ ~g.deployment_results[1].success

----------------------------------------------------------------------------
(* The success flag of deploy_certificate *)

\* both upload_file calls of step 2 returned without raising
BothUploadsReturned == StepOk("upload_fullchain") /\ StepOk("upload_key")

\* one of the upload_file calls of step 2 raised
AnUploadRaised == StepFailed("upload_fullchain") \/ StepFailed("upload_key")

----------------------------------------------------------------------------
(* A domain without a local certificate *)

\* the local certificate file of the entry is missing or cannot be parsed
Unissued == ~local_cert.readable

\* C38: in a live run, an entry whose local certificate file is missing or
\* unreadable is never issued a certificate: no issuance is attempted and no
\* server is touched at any point of process_domain, and when process_domain
\* has returned the entry is in skipped_renewals and in no other collection.
C38_MissingCertNeverIssued ==
    (~dry_run /\ Unissued /\ domain_info.domain # <<>> /\ dpc # "standalone") =>
        /\ net.issued = <<>> /\ net.touched = {}
        /\ dpc \notin {"issue", "servers", "next_server", "deploying", "classify"}
        /\ Returned =>
              /\ results.skipped_renewals = <<domain_info.domain>>
              /\ results.successful_renewals = <<>>
              /\ results.failed_renewals = <<>>

\* C38 witness: a live run returned from an entry whose certificate file is
\* missing, with the entry skipped and nothing issued
C38_Witness ==
    /\ Returned /\ ~dry_run /\ Unissued
    /\ domain_info.domain # <<>>
    /\ results.skipped_renewals = <<domain_info.domain>>
    /\ net.issued = <<>>

----------------------------------------------------------------------------
(* The connection of a deployment *)

\* deploy_certificate is between the creation of its RemoteDeployer and its
\* return
InDeployment == pc \notin {"idle", "start", "done"}

\* C35: connection lifecycle.  A deployment that passes the config check
\* starts with a RemoteDeployer that holds no session, whatever deployments
\* came before it; a session is open only inside a deployment; the deployment
\* returns only through close, which is its last step and leaves no session
\* open (in a live run the session is closed); a closed session is never used
\* again; and outside a deployment no session is open.
C35_ConnectionLifecycle ==
    [][/\ (pc = "start" /\ pc' = "backup") => (session = "none" /\ session' = "none")
       /\ (session' = "open") => (InDeployment /\ pc' \notin {"idle", "start", "done"})
       /\ (InDeployment /\ pc' = "done") =>
             /\ pc = "close"
             /\ session' # "open"
             /\ ~dry_run => session' = "closed"
       /\ (pc = "close") => pc' = "done"
       /\ (session = "closed") => session' # "open"
       /\ ~InDeployment => session # "open"
      ]_vars

\* C35 witness: in the deployment of a second domain, after the first domain
\* was deployed to the same server, the rollback failed and the session of
\* this deployment was closed before the return
C35_Witness ==
    /\ run.mpc = "in_domain" /\ Len(run.handled) = 2
    /\ run.handled[1].servers = <<"A">> /\ results.successful_renewals # <<>>
    /\ dpc = "deploying" /\ Done /\ LiveDeployment
    /\ rollback = "FAILED"
    /\ session = "closed"

----------------------------------------------------------------------------
(* The report of a malformed results structure *)

\* generate_markdown_report has been applied to a structure with missing or
\* null fields
RenderedMalformed ==
    applied.fn = "generate_markdown_report on malformed results" /\ applied.done

\* the key is absent from the dictionary, or holds None
Missing(d, key) == key \notin DOMAIN d \/ IsNone(d, key)

\* the value the first line of the given kind carries
ValueOf(text, kind) ==
    text[CHOOSE i \in DOMAIN text : text[i].kind = kind].a

\* C31: generate_markdown_report never fails on a results structure with
\* missing or null fields: whichever top-level fields and fields of a
\* failed-domain entry are absent or None, no exception leaves the call, a
\* report is returned, a missing duration is rendered as N/A, a missing
\* collection is counted as 0 and an absent count is rendered as 0.
C31_ReportNeverFails ==
    RenderedMalformed =>
        LET R == applied.results
            text == applied.value
        IN  /\ applied.exc = "none"
            /\ text # <<>>
            /\ text[Len(text)].kind = "End of Report"
            /\ Missing(R, "duration") => ValueOf(text, "Duration") = "N/A"
            /\ \A c \in {"total_domains_configured", "domains_processed"} :
                  (c \notin DOMAIN R /\ ~IsNone(R, c)) =>
                     ValueOf(text, IF c = "domains_processed"
                                   THEN "Domains Processed"
                                   ELSE "Total Domains Configured") = 0
            /\ Missing(R, "successful_renewals") => ValueOf(text, "Successful Renewals") = 0
            /\ Missing(R, "skipped_renewals") => ValueOf(text, "Skipped") = 0
            /\ Missing(R, "failed_renewals") => ValueOf(text, "Failed Domains") = 0

----------------------------------------------------------------------------
(* retry_decorator.py: the retry decorator, and the functions it wraps.  A
   call of a wrapped function is followed invocation by invocation; the
   environment chooses how each invocation ends. *)

\* the largest tries argument enumerated for a wrapped function of any
\* policy
MaxTries == 4

\* the arguments of the @retry lines (remote_deployer.py:23, 68, 91 and
\* acme_client_wrapper.py:29)
RetryPolicies ==
    [f \in {"_connect", "upload_file", "execute_command",
            "_run_acme_command_retriable"} |->
        CASE f = "_connect" ->
                [tries |-> 3, delay |-> 5, backoff |-> 2,
                 exceptions |-> {"SSHException", "socket.error"}]
          [] f = "upload_file" ->
                [tries |-> 3, delay |-> 2, backoff |-> 2,
                 exceptions |-> {"SSHException", "IOError", "socket.error"}]
          [] f = "execute_command" ->
                [tries |-> 3, delay |-> 2, backoff |-> 2,
                 exceptions |-> {"SSHException", "socket.error"}]
          [] OTHER ->
                [tries |-> 5, delay |-> 2, backoff |-> 2,
                 exceptions |-> {"CalledProcessError"}]]

\* the policies enumerated for a wrapped function of no particular purpose,
\* as flaky_function of retry_decorator.py:42
FlakyPolicies ==
    [tries : 1..MaxTries, delay : {1, 5}, backoff : {1, 2, 3},
     exceptions : {{"ValueError", "TypeError"}}]

\* "except exceptions": the raised type is one of the listed ones, or
\* Exception, the base of them all, is listed
Listed(exc, exceptions) == exc \in exceptions \/ "Exception" \in exceptions

\* the frame of one f_retry call: mtries, mdelay = tries, delay
\* (retry_decorator.py:20)
NewFrame(policy) == [mtries |-> policy.tries, mdelay |-> policy.delay]
NoFrame == [mtries |-> 0, mdelay |-> 0]

\* f_retry retrying whatever exception the invocation raised
f_retry_catching_all(frame, policy, o) ==
    IF o = "ok"
    THEN [verdict |-> "return", frame |-> frame, slept |-> <<>>]
    ELSE IF frame.mtries > 1
    THEN [verdict |-> "again",
          frame |-> [mtries |-> frame.mtries - 1,
                     mdelay |-> frame.mdelay * policy.backoff],
          slept |-> <<frame.mdelay>>]
    ELSE [verdict |-> "raise", frame |-> frame, slept |-> <<>>]

\* f_retry waiting the initial delay before every retry
f_retry_constant_delay(frame, policy, o) ==
    IF o = "ok"
    THEN [verdict |-> "return", frame |-> frame, slept |-> <<>>]
    ELSE IF frame.mtries > 1 /\ Listed(o, policy.exceptions)
    THEN [verdict |-> "again",
          frame |-> [mtries |-> frame.mtries - 1, mdelay |-> frame.mdelay],
          slept |-> <<frame.mdelay>>]
    ELSE [verdict |-> "raise", frame |-> frame, slept |-> <<>>]

\* f_retry with a loop that runs while mtries > 0: one more invocation
f_retry_one_more(frame, policy, o) ==
    IF o = "ok"
    THEN [verdict |-> "return", frame |-> frame, slept |-> <<>>]
    ELSE IF frame.mtries > 0 /\ Listed(o, policy.exceptions)
    THEN [verdict |-> "again",
          frame |-> [mtries |-> frame.mtries - 1,
                     mdelay |-> frame.mdelay * policy.backoff],
          slept |-> <<frame.mdelay>>]
    ELSE [verdict |-> "raise", frame |-> frame, slept |-> <<>>]

\* retry_decorator.py:21-31: what f_retry does when an invocation of f has
\* ended with o ("ok" when it returned, else the type raised).  Inside the
\* loop (mtries > 1) a listed exception is followed by a sleep of mdelay, and
\* the next invocation; any other exception, and every exception of the
\* final invocation, leaves f_retry.
f_retry(frame, policy, o) ==
    IF o = "ok"
    THEN [verdict |-> "return", frame |-> frame, slept |-> <<>>]
    ELSE IF frame.mtries > 1 /\ Listed(o, policy.exceptions)
    THEN [verdict |-> "again",
          frame |-> [mtries |-> frame.mtries - 1,
                     mdelay |-> frame.mdelay * policy.backoff],
          slept |-> <<frame.mdelay>>]
    ELSE [verdict |-> "raise", frame |-> frame, slept |-> <<>>]

\* how an invocation of a wrapped function that calls nothing retried can
\* end: flaky_function, and the subprocess.run of
\* _run_acme_command_retriable (acme_client_wrapper.py:32)
LeafOutcomes(f) ==
    IF f = "flaky_function" THEN {"ok", "ValueError", "TypeError", "KeyError"}
    ELSE {"ok", "CalledProcessError", "FileNotFoundError"}

\* how one connection attempt of _connect can end (remote_deployer.py:38-55)
ConnectOutcomes == {"ok", "SSHException", "socket.error", "Exception"}

\* how the transfer of upload_file and the remote command of execute_command
\* can end once connected (remote_deployer.py:78-89, 104-121): an exit status
\* other than 0 is an Exception when check_exit_code is set, and a
\* configuration test can return an output without the success marker
OperationOutcomes(f) ==
    IF f = "upload_file" THEN {"ok", "IOError", "Exception"}
    ELSE {"ok", "no_marker", "exit_nonzero", "SSHException"}

\* what leaves the operation of the body of f for the outcome o
Raised(f, o, check_exit_code) ==
    CASE o \in {"ok", "no_marker"} -> "ok"
      [] o = "exit_nonzero" -> IF check_exit_code THEN "Exception" ELSE "ok"
      [] OTHER -> o

\* the calls enumerated: a wrapped function and the policy of its @retry
RetryInputs ==
    LET start(call, policy, check, dry) ==
            [fn |-> "retry", call |-> call, policy |-> policy,
             check_exit_code |-> check, dry_run |-> dry,
             outer |-> NewFrame(policy), inner |-> NoFrame,
             at |-> "invoke", connected |-> FALSE,
             invoked |-> 0, connect_invoked |-> 0, connects |-> <<>>,
             operations |-> <<>>, history |-> <<>>,
             sleeps |-> <<>>, connect_sleeps |-> <<>>,
             result |-> [kind |-> "pending", exc |-> "", invocation |-> 0]]
    IN  {start("flaky_function", p, TRUE, FALSE) : p \in FlakyPolicies}
        \cup {start("_run_acme_command_retriable",
                    RetryPolicies["_run_acme_command_retriable"], TRUE, FALSE)}
        \cup {start(f, RetryPolicies[f], c, d) :
                 f \in {"upload_file", "execute_command"},
                 c \in BOOLEAN, d \in BOOLEAN}

\* the call has ended with verdict r of f_retry on outcome o of the
\* invocation in course, or goes on to the next invocation
AfterInvocation(a, r, o) ==
    [a EXCEPT
       !.outer = r.frame,
       !.inner = NoFrame,
       !.history = Append(@, o),
       !.sleeps = @ \o r.slept,
       !.at = IF r.verdict = "again" THEN "invoke" ELSE "ended",
       !.result = CASE r.verdict = "return" ->
                          [kind |-> "returned", exc |-> "", invocation |-> a.invoked]
                    [] r.verdict = "raise" ->
                          [kind |-> "raised", exc |-> o, invocation |-> a.invoked]
                    [] OTHER -> @]

\* retry_decorator.py:21-31 around a function that calls nothing retried:
\* one invocation and what f_retry does with its end
InvokeLeaf ==
    /\ applied.fn = "retry"
    /\ applied.at = "invoke"
    /\ applied.call \in {"flaky_function", "_run_acme_command_retriable"}
    /\ \E o \in LeafOutcomes(applied.call) :
         LET a == [applied EXCEPT !.invoked = @ + 1]
         IN  applied' = AfterInvocation(a, f_retry(a.outer, a.policy, o), o)
    /\ UNCHANGED <<dry_run, deploy_vars, domain_vars, run>>

\* InvokeTransport calling a _connect that is not wrapped: one connection
\* attempt per invocation
InvokeTransport_connecting_once ==
    /\ applied.fn = "retry"
    /\ applied.at = "invoke"
    /\ applied.call \in {"upload_file", "execute_command"}
    /\ LET a == [applied EXCEPT !.invoked = @ + 1]
       IN  IF a.dry_run
           THEN applied' = AfterInvocation(a, f_retry(a.outer, a.policy, "ok"), "ok")
           ELSE applied' = [a EXCEPT !.at = "connect",
                                     !.inner = [mtries |-> 1, mdelay |-> 0]]
    /\ UNCHANGED <<dry_run, deploy_vars, domain_vars, run>>

\* remote_deployer.py:71-76 and 94-102: an invocation of upload_file or
\* execute_command returns at once in a dry run, and calls self._connect(),
\* which is wrapped itself, in a live one
InvokeTransport ==
    /\ applied.fn = "retry"
    /\ applied.at = "invoke"
    /\ applied.call \in {"upload_file", "execute_command"}
    /\ LET a == [applied EXCEPT !.invoked = @ + 1]
       IN  IF a.dry_run
           THEN applied' = AfterInvocation(a, f_retry(a.outer, a.policy, "ok"), "ok")
           ELSE applied' = [a EXCEPT !.at = "connect",
                                     !.inner = NewFrame(RetryPolicies["_connect"])]
    /\ UNCHANGED <<dry_run, deploy_vars, domain_vars, run>>

\* remote_deployer.py:23-55 inside the body of upload_file or
\* execute_command: one invocation of _connect, which returns at once on an
\* active session and makes a connection attempt otherwise.  What leaves the
\* f_retry of _connect leaves the body of the caller and meets the f_retry of
\* the caller.
InvokeConnect ==
    /\ applied.fn = "retry"
    /\ applied.at = "connect"
    /\ \E o \in (IF applied.connected THEN {"ok"} ELSE ConnectOutcomes) :
         LET a == [applied EXCEPT
                      !.connect_invoked = @ + 1,
                      !.connects = IF applied.connected THEN @ ELSE Append(@, o),
                      !.connected = (o = "ok")]
             r == f_retry(a.inner, RetryPolicies["_connect"], o)
         IN  CASE r.verdict = "again" ->
                    applied' = [a EXCEPT !.inner = r.frame,
                                         !.connect_sleeps = @ \o r.slept]
               [] r.verdict = "return" ->
                    applied' = [a EXCEPT !.at = "operate"]
               [] OTHER ->
                    applied' = AfterInvocation(a, f_retry(a.outer, a.policy, o), o)
    /\ UNCHANGED <<dry_run, deploy_vars, domain_vars, run>>

\* remote_deployer.py:78-89 and 104-121: the transfer, or the remote command,
\* of the invocation in course; after a transport error the session may be
\* dead or still active
Operate ==
    /\ applied.fn = "retry"
    /\ applied.at = "operate"
    /\ \E o \in OperationOutcomes(applied.call) :
       \E active \in (IF o \in {"SSHException", "IOError"} THEN BOOLEAN ELSE {TRUE}) :
         LET a == [applied EXCEPT
                      !.operations = Append(@, o),
                      !.connected = active]
             e == Raised(a.call, o, a.check_exit_code)
         IN  applied' = AfterInvocation(a, f_retry(a.outer, a.policy, e), e)
    /\ UNCHANGED <<dry_run, deploy_vars, domain_vars, run>>

\* the messages of the exceptions issue_certificate raises
\* (acme_client_wrapper.py:122, 143)
RegistrationFailedMsg == "ACME account registration failed"
IssuanceFailedMsg == "acme.sh certificate issuance failed"

\* the first arguments of the two acme.sh commands
\* (acme_client_wrapper.py:98, 130)
RegisterCmd == "--register-account"
IssueCmd == "--issue"

\* issue_certificate is called, in a live run and in a dry run
IssueInputs ==
    [fn : {"issue_certificate"}, dry_run : BOOLEAN,
     at : {"register"}, phase : {"check"}, frame : {NoFrame},
     commands : {<<>>}, runs : {<<>>}, registered : {FALSE},
     storage_made : {FALSE},
     result : {[kind |-> "pending", text |-> ""]}]

\* StageEnd going on to the issue command whatever the registration did
StageEnd_ignoring_registration(a, o) ==
    IF a.at = "register"
    THEN [a EXCEPT !.registered = (o = "ok"),
                   !.at = IF a.dry_run THEN "issue" ELSE "makedirs",
                   !.phase = "check", !.frame = NoFrame]
    ELSE IF o = "ok"
    THEN [a EXCEPT !.at = "ended", !.frame = NoFrame,
                   !.result = [kind |-> "returned", text |-> ""]]
    ELSE [a EXCEPT !.at = "ended", !.frame = NoFrame,
                   !.result = [kind |-> "raised", text |-> IssuanceFailedMsg]]

\* acme_client_wrapper.py:118-143: the run_acme_command call of the stage in
\* course has ended with o ("ok" when it returned, else the type raised).
\* An exception of the registration is raised again as "ACME account
\* registration failed", one of the issue command as "acme.sh certificate
\* issuance failed"; after the registration the storage directory is made in
\* a live run, and the issue command follows.
StageEnd(a, o) ==
    IF o # "ok"
    THEN [a EXCEPT !.at = "ended", !.frame = NoFrame,
                   !.result = [kind |-> "raised",
                               text |-> IF a.at = "register"
                                        THEN RegistrationFailedMsg
                                        ELSE IssuanceFailedMsg]]
    ELSE IF a.at = "register"
    THEN [a EXCEPT !.registered = TRUE,
                   !.at = IF a.dry_run THEN "issue" ELSE "makedirs",
                   !.phase = "check", !.frame = NoFrame]
    ELSE [a EXCEPT !.at = "ended", !.frame = NoFrame,
                   !.result = [kind |-> "returned", text |-> ""]]

\* acme_client_wrapper.py:35-61: run_acme_command is called with the command
\* of the stage and looks for acme.sh first.  Without acme.sh a live call
\* raises FileNotFoundError and a dry one returns a simulated success; with
\* acme.sh the command goes to _run_acme_command_retriable.
RunAcmeCommand ==
    /\ applied.fn = "issue_certificate"
    /\ applied.at \in {"register", "issue"}
    /\ applied.phase = "check"
    /\ \E installed \in BOOLEAN :
         LET a == [applied EXCEPT
                      !.commands = Append(@, IF applied.at = "register"
                                             THEN RegisterCmd ELSE IssueCmd)]
         IN  IF installed
             THEN applied' = [a EXCEPT
                     !.phase = "run",
                     !.frame = NewFrame(RetryPolicies["_run_acme_command_retriable"])]
             ELSE applied' = StageEnd(a, IF a.dry_run THEN "ok"
                                         ELSE "FileNotFoundError")
    /\ UNCHANGED <<dry_run, deploy_vars, domain_vars, run>>

\* acme_client_wrapper.py:29-33 and 75-91: one subprocess.run of the command
\* under the retry of _run_acme_command_retriable; what leaves the retry
\* leaves run_acme_command
RunAcmeSubprocess ==
    /\ applied.fn = "issue_certificate"
    /\ applied.at \in {"register", "issue"}
    /\ applied.phase = "run"
    /\ \E o \in LeafOutcomes("_run_acme_command_retriable") :
         LET a == [applied EXCEPT
                      !.runs = Append(@, [cmd |-> applied.commands[Len(applied.commands)],
                                          end |-> o])]
             r == f_retry(a.frame, RetryPolicies["_run_acme_command_retriable"], o)
         IN  IF r.verdict = "again"
             THEN applied' = [a EXCEPT !.frame = r.frame]
             ELSE applied' = StageEnd(a, o)
    /\ UNCHANGED <<dry_run, deploy_vars, domain_vars, run>>

\* acme_client_wrapper.py:124-125: os.makedirs of the storage directory in a
\* live run; its error is not caught and leaves issue_certificate as it is
MakeStorage ==
    /\ applied.fn = "issue_certificate"
    /\ applied.at = "makedirs"
    /\ \E o \in {"ok", "OSError"} :
         applied' = IF o = "ok"
                    THEN [applied EXCEPT !.at = "issue", !.storage_made = TRUE]
                    ELSE [applied EXCEPT !.at = "ended",
                             !.result = [kind |-> "raised", text |-> "OSError"]]
    /\ UNCHANGED <<dry_run, deploy_vars, domain_vars, run>>

InitRetry ==
    /\ dry_run = FALSE
    /\ DeployIdle
    /\ domain_info = NoDomainInfo
    /\ servers_map = <<>>
    /\ local_cert = NoLocalCert
    /\ results = EmptyResults
    /\ dpc = "idle"
    /\ domain_to_issue = <<>>
    /\ domain_result = NoDomainResult
    /\ server_index = 0
    /\ net = NoCalls
    /\ run = NoRun
    /\ \/ applied \in RetryInputs
       \/ applied \in IssueInputs

NextRetry ==
    \/ InvokeLeaf
    \/ InvokeTransport
    \/ InvokeConnect
    \/ Operate
    \/ RunAcmeCommand
    \/ RunAcmeSubprocess
    \/ MakeStorage

SpecRetry == InitRetry /\ [][NextRetry]_vars

----------------------------------------------------------------------------
(* Properties of the retry decorator *)

\* the call of the wrapped function has ended
Ended == applied.fn = "retry" /\ applied.at = "ended"

\* the first n invocations of the call each raised a listed exception
ListedUpTo(n) ==
    \A i \in 1..n : /\ applied.history[i] # "ok"
                    /\ Listed(applied.history[i], applied.policy.exceptions)

\* C33: bounded retry.  A call of a function wrapped with retry(tries=N)
\* invokes it at least once and at most N times.  When the first k < N
\* invocations raise a listed exception and the next one succeeds, the
\* function was invoked exactly k+1 times and the value of that invocation is
\* returned; when all N invocations raise, the exception of the last one
\* leaves the call; an exception that is not listed leaves the call at once.
C33_BoundedRetry ==
    applied.fn = "retry" =>
        LET N == applied.policy.tries
            n == applied.invoked
            h == applied.history
        IN  /\ n <= N
            /\ Ended =>
                  /\ n >= 1 /\ n = Len(h)
                  /\ ListedUpTo(n - 1)
                  /\ (h[n] = "ok") <=> (applied.result.kind = "returned")
                  /\ h[n] = "ok" => applied.result.invocation = n
                  /\ h[n] # "ok" =>
                        /\ applied.result = [kind |-> "raised", exc |-> h[n],
                                             invocation |-> n]
                        /\ Listed(h[n], applied.policy.exceptions) => n = N
            /\ \A i \in DOMAIN h :
                  (h[i] # "ok" /\ ~Listed(h[i], applied.policy.exceptions))
                      => (Ended /\ i = Len(h) /\ applied.result.exc = h[i])
            /\ \A i \in DOMAIN h : h[i] = "ok" => (Ended /\ i = Len(h))

\* C33 witness: the subprocess of _run_acme_command_retriable (5 tries)
\* failed three times and succeeded at the fourth invocation, whose value was
\* returned
C33_Witness ==
    /\ Ended /\ applied.call = "_run_acme_command_retriable"
    /\ applied.history = <<"CalledProcessError", "CalledProcessError",
                           "CalledProcessError", "ok">>
    /\ applied.invoked = 4
    /\ applied.result = [kind |-> "returned", exc |-> "", invocation |-> 4]

\* b to the power n
RECURSIVE Pow(_, _)
Pow(b, n) == IF n = 0 THEN 1 ELSE b * Pow(b, n - 1)

\* the waits of the call, one before each retry of the wrapped function
Waits == applied.sleeps

\* C36: exponential backoff.  In a call of a function wrapped with
\* retry(tries=N, delay=D, backoff=B) the wait before the i-th retry is
\* D * B^(i-1); a wait is followed by another invocation, so that none
\* happens after the final invocation or after a successful one: at every
\* moment there are as many waits as invocations that ended with a retry,
\* and at most N-1.
C36_ExponentialBackoff ==
    applied.fn = "retry" =>
        LET D == applied.policy.delay
            B == applied.policy.backoff
            N == applied.policy.tries
        IN  /\ \A i \in DOMAIN Waits : Waits[i] = D * Pow(B, i - 1)
            /\ Len(Waits) <= N - 1
            /\ Ended => Len(Waits) = applied.invoked - 1
            /\ ~Ended => Len(Waits) = Len(applied.history)

\* C36 witness: with tries 4, delay 5 and backoff 3 every invocation raised
\* a listed exception; the waits were 5, 15 and 45 and none followed the
\* fourth invocation
C36_Witness ==
    /\ Ended /\ applied.call = "flaky_function"
    /\ applied.policy.tries = 4 /\ applied.policy.delay = 5
    /\ applied.policy.backoff = 3
    /\ applied.invoked = 4 /\ applied.result.kind = "raised"
    /\ Waits = <<5, 15, 45>>

\* the failures of a connection attempt that the policies list
NetworkErrors == {"SSHException", "socket.error"}

\* a live upload_file or execute_command call all of whose connection
\* attempts, so far, failed with a network error
HostUnreachable ==
    /\ applied.fn = "retry"
    /\ applied.call \in {"upload_file", "execute_command"}
    /\ ~applied.dry_run
    /\ \A i \in DOMAIN applied.connects : applied.connects[i] \in NetworkErrors

\* C39: retries nest.  A single live upload_file or execute_command call
\* against a host whose connection always fails with a network error ends
\* only after 3 invocations of its body, each of which made 3 connection
\* attempts through _connect: 9 connection attempts, not 3, before the
\* network error leaves the call, and the transfer or command is never
\* started.
C39_NestedRetries ==
    HostUnreachable =>
        /\ Len(applied.connects) <= 9
        /\ applied.operations = <<>>
        /\ Len(applied.connects) = applied.connect_invoked
        /\ Ended =>
              /\ Len(applied.connects) = 3 * 3
              /\ applied.invoked = 3
              /\ applied.result.kind = "raised"
              /\ applied.result.exc \in NetworkErrors
              /\ applied.result.exc = applied.connects[9]

\* C39 witness: an execute_command call ended after nine connection
\* attempts that all failed with a network error
C39_Witness ==
    /\ Ended /\ HostUnreachable /\ applied.call = "execute_command"
    /\ Len(applied.connects) = 9
    /\ applied.connects[1] = "socket.error" /\ applied.connects[9] = "SSHException"
    /\ applied.result = [kind |-> "raised", exc |-> "SSHException", invocation |-> 3]

\* the invocations of the call that were followed by another one
Retried ==
    IF Ended THEN 1..(Len(applied.history) - 1) ELSE DOMAIN applied.history

\* a call of one of the wrapped transport functions of RemoteDeployer
TransportCall ==
    applied.fn = "retry" /\ applied.call \in {"upload_file", "execute_command"}

\* the failures the transport functions take for failures of the network
NetworkClassified == {"SSHException", "socket.error", "IOError"}

\* the command or validation of the call completed with a failure of its
\* own, not of the network: a non-zero exit status, or an output without the
\* success marker
LogicFailures == {"exit_nonzero", "no_marker"}

----------------------------------------------------------------------------
(* Properties of issue_certificate *)

Issuing == applied.fn = "issue_certificate"

\* the acme.sh commands run_acme_command was called with, in order
AcmeCommands == applied.commands

\* the execution of the command ran to its end with exit status 0
Completed0(execution) == execution.end = "ok"

\* C34: issue_certificate runs the account registration before the issue
\* command.  The issue command is run only after the registration has
\* succeeded; when the registration fails the issue command is never run and
\* the exception raised reports an account registration failure; when the
\* issue command fails the exception raised reports an issuance failure; and
\* when issue_certificate returns, run_acme_command was called for exactly
\* two commands, the registration and then the issue, and in a live run
\* exactly two executions of acme.sh completed, in that order.
C34_RegisterThenIssue ==
    Issuing =>
        /\ AcmeCommands \in {<<>>, <<RegisterCmd>>, <<RegisterCmd, IssueCmd>>}
        /\ IssueCmd \in {AcmeCommands[i] : i \in DOMAIN AcmeCommands}
              => applied.registered
        /\ \A i \in DOMAIN applied.runs : \A j \in DOMAIN applied.runs :
              (i < j /\ applied.runs[j].cmd = RegisterCmd)
                  => applied.runs[i].cmd = RegisterCmd
        /\ (applied.at = "ended" /\ ~applied.registered) =>
              /\ AcmeCommands = <<RegisterCmd>>
              /\ applied.result = [kind |-> "raised", text |-> RegistrationFailedMsg]
        /\ (applied.at = "ended" /\ AcmeCommands = <<RegisterCmd, IssueCmd>>
              /\ applied.result.kind = "raised") =>
              applied.result.text = IssuanceFailedMsg
        /\ applied.result.kind = "returned" =>
              /\ applied.at = "ended"
              /\ AcmeCommands = <<RegisterCmd, IssueCmd>>
              /\ applied.registered
              /\ ~applied.dry_run =>
                    SelectSeq(applied.runs, Completed0)
                       = <<[cmd |-> RegisterCmd, end |-> "ok"],
                           [cmd |-> IssueCmd, end |-> "ok"]>>

\* C34 witness: the registration succeeded and the issue command failed on
\* all five tries; the exception reports an issuance failure
C34_Witness ==
    /\ Issuing /\ applied.at = "ended" /\ ~applied.dry_run
    /\ applied.registered /\ applied.storage_made
    /\ AcmeCommands = <<RegisterCmd, IssueCmd>>
    /\ Len(applied.runs) = 6
    /\ applied.runs[6] = [cmd |-> IssueCmd, end |-> "CalledProcessError"]
    /\ applied.result = [kind |-> "raised", text |-> IssuanceFailedMsg]

====
